---- MODULE Spec2Model ----
(***************************************************************************)
(* State-machine model of the viewer core of SenwichScene                  *)
(* (src/src/viewer/SplatViewer.ts): asset lifecycle, render scheduler,     *)
(* pointer/wheel gestures and the orbit camera rig.                        *)
(*                                                                         *)
(* Numbers are fixed point: angles in units of 1e-4 rad, distances in      *)
(* units of 0.01, the energy scalar in percent.  Epsilons of the code that *)
(* are smaller than one unit (1e-6, 1e-5 rad; 1e-5, 1e-4 distance) become   *)
(* "differs by at least one unit".                                         *)
(***************************************************************************)
EXTENDS Integers, Sequences, FiniteSets, TLC

\* ---------------------------------------------------------------------
\* Bounds of the model (not program constants)
\* ---------------------------------------------------------------------
\* operations started by the environment (API calls, input events) plus
\* inertia frames, per behaviour
MaxOps == 3

\* ---------------------------------------------------------------------
\* Program constants
\* ---------------------------------------------------------------------
PI == 31416
HalfPI == 15708
rotateSpeed == 30
minDistance == 30
maxDistance == 5000
minPolarAngle == 200
maxPolarAngle == PI - 200
minVelocity == 5
InitialDistance == 400
InitialTheta == 4366
InitialPhi == 6912
ScaleLimit == 1000

\* ---------------------------------------------------------------------
\* Variables: the fields of the SplatViewer object, the promises in
\* flight, the blob-URL registry of the host, and history variables.
\* ---------------------------------------------------------------------
VARIABLES
    scene,              \* model renderables that are children of the scene (by load token)
    model,              \* this.model: 0 = null, else the renderable's load token
    disposed,           \* history: renderables the last operation disposed of
    currentObjectUrl,   \* this.currentObjectUrl: 0 = null, else the blob URL's load token
    liveUrls,           \* blob URLs created and not yet revoked
    currentLoadToken,   \* this.currentLoadToken
    loads,              \* asynchronous work in flight, per load token
    viewport,           \* this.viewport # null (listeners attached)
    container,          \* this.container # null
    viewMode,           \* layout of this.views: "single" or "quad"
    viewByPosition,     \* this.viewByPosition: position -> view object
    camera,             \* this.primaryView.camera, relative to the orbit target
    orbitTarget,        \* this.orbitTarget (point id)
    defaultTarget,      \* this.defaultTarget (point id)
    defaultDistance,    \* this.defaultDistance
    defaultSpherical,   \* this.defaultSpherical
    spherical,          \* this.spherical (current)
    sphericalGoal,      \* this.sphericalGoal (goal)
    pointerState,       \* this.pointerState
    pointerCapture,     \* the viewport element holds the pointer capture
    cameraOffset,       \* this.cameraOffset: the vector of the orbit math, <<x, y, z>>
    mathCalls,          \* history: Math functions the last orbit conversion evaluated
    pony,               \* the state of the usePonyCare composable (energy, visibility, storage)
    velocityTheta,      \* this.velocityTheta
    velocityPhi,        \* this.velocityPhi
    isSpinning,         \* this.isSpinning
    needsRender,        \* this.needsRender
    renderLoopActive,   \* this.renderLoopActive (animation loop registered)
    currentEnergy,      \* this.currentEnergy
    lastOp,             \* history: the operation that ran last
    lastTok,            \* history: token of the load that operation was about
    lastAt,             \* history: pointer position that operation read from its event
    drawCalls,          \* history: the render commands the last operation issued, in order
    loopRegistrations,  \* history: setAnimationLoop(renderLoop) calls of the last operation
    fitToken,           \* history: token of the load the last operation ran fitViewToModel for
    cameraChanged,      \* history: what updateCamera returned in the last frame
    nOps                \* history: API calls, input events and inertia frames so far

vars == <<scene, model, disposed, currentObjectUrl, liveUrls, currentLoadToken,
          loads, viewport, container, viewMode, viewByPosition, camera,
          orbitTarget, defaultTarget, defaultDistance, defaultSpherical,
          spherical, sphericalGoal, pointerState, pointerCapture, velocityTheta,
          velocityPhi, isSpinning, needsRender, renderLoopActive, currentEnergy,
          lastOp, lastTok, lastAt, drawCalls, loopRegistrations, fitToken,
          cameraChanged, nOps, cameraOffset, mathCalls, pony>>

\* The object as one record, so that methods compose as in the code.  The
\* per-operation history (disposed, fitToken) starts empty in every operation.
This ==
    [scene |-> scene, model |-> model, disposed |-> {},
     currentObjectUrl |-> currentObjectUrl, liveUrls |-> liveUrls,
     currentLoadToken |-> currentLoadToken, loads |-> loads,
     viewport |-> viewport, container |-> container, viewMode |-> viewMode,
     viewByPosition |-> viewByPosition, camera |-> camera,
     orbitTarget |-> orbitTarget, defaultTarget |-> defaultTarget,
     defaultDistance |-> defaultDistance, defaultSpherical |-> defaultSpherical,
     spherical |-> spherical, sphericalGoal |-> sphericalGoal,
     pointerState |-> pointerState, pointerCapture |-> pointerCapture,
     velocityTheta |-> velocityTheta,
     velocityPhi |-> velocityPhi, isSpinning |-> isSpinning,
     needsRender |-> needsRender, renderLoopActive |-> renderLoopActive,
     currentEnergy |-> currentEnergy, lastOp |-> lastOp, lastTok |-> lastTok,
     lastAt |-> lastAt, drawCalls |-> << >>, loopRegistrations |-> 0,
     cameraOffset |-> cameraOffset, mathCalls |-> {}, pony |-> pony,
     fitToken |-> 0, cameraChanged |-> cameraChanged,
     nOps |-> nOps]

Becomes(s) ==
    /\ scene' = s.scene
    /\ model' = s.model
    /\ disposed' = s.disposed
    /\ currentObjectUrl' = s.currentObjectUrl
    /\ liveUrls' = s.liveUrls
    /\ currentLoadToken' = s.currentLoadToken
    /\ loads' = s.loads
    /\ viewport' = s.viewport
    /\ container' = s.container
    /\ viewMode' = s.viewMode
    /\ viewByPosition' = s.viewByPosition
    /\ camera' = s.camera
    /\ orbitTarget' = s.orbitTarget
    /\ defaultTarget' = s.defaultTarget
    /\ defaultDistance' = s.defaultDistance
    /\ defaultSpherical' = s.defaultSpherical
    /\ spherical' = s.spherical
    /\ sphericalGoal' = s.sphericalGoal
    /\ pointerState' = s.pointerState
    /\ pointerCapture' = s.pointerCapture
    /\ velocityTheta' = s.velocityTheta
    /\ velocityPhi' = s.velocityPhi
    /\ isSpinning' = s.isSpinning
    /\ needsRender' = s.needsRender
    /\ renderLoopActive' = s.renderLoopActive
    /\ currentEnergy' = s.currentEnergy
    /\ lastOp' = s.lastOp
    /\ lastTok' = s.lastTok
    /\ lastAt' = s.lastAt
    /\ drawCalls' = s.drawCalls
    /\ cameraOffset' = s.cameraOffset
    /\ mathCalls' = s.mathCalls
    /\ pony' = s.pony
    /\ loopRegistrations' = s.loopRegistrations
    /\ fitToken' = s.fitToken
    /\ cameraChanged' = s.cameraChanged
    /\ nOps' = s.nOps

Starts(s) ==
    /\ scene = s.scene
    /\ model = s.model
    /\ disposed = s.disposed
    /\ currentObjectUrl = s.currentObjectUrl
    /\ liveUrls = s.liveUrls
    /\ currentLoadToken = s.currentLoadToken
    /\ loads = s.loads
    /\ viewport = s.viewport
    /\ container = s.container
    /\ viewMode = s.viewMode
    /\ viewByPosition = s.viewByPosition
    /\ camera = s.camera
    /\ orbitTarget = s.orbitTarget
    /\ defaultTarget = s.defaultTarget
    /\ defaultDistance = s.defaultDistance
    /\ defaultSpherical = s.defaultSpherical
    /\ spherical = s.spherical
    /\ sphericalGoal = s.sphericalGoal
    /\ pointerState = s.pointerState
    /\ pointerCapture = s.pointerCapture
    /\ velocityTheta = s.velocityTheta
    /\ velocityPhi = s.velocityPhi
    /\ isSpinning = s.isSpinning
    /\ needsRender = s.needsRender
    /\ renderLoopActive = s.renderLoopActive
    /\ currentEnergy = s.currentEnergy
    /\ lastOp = s.lastOp
    /\ lastTok = s.lastTok
    /\ lastAt = s.lastAt
    /\ drawCalls = s.drawCalls
    /\ cameraOffset = s.cameraOffset
    /\ mathCalls = s.mathCalls
    /\ pony = s.pony
    /\ loopRegistrations = s.loopRegistrations
    /\ fitToken = s.fitToken
    /\ cameraChanged = s.cameraChanged
    /\ nOps = s.nOps

\* ---------------------------------------------------------------------
\* Arithmetic helpers
\* ---------------------------------------------------------------------
Abs(n) == IF n < 0 THEN -n ELSE n
Max(a, b) == IF a > b THEN a ELSE b
Min(a, b) == IF a < b THEN a ELSE b
clamp(v, lo, hi) == Max(lo, Min(hi, v))
\* n * num / den, rounded toward zero
Scale(n, num, den) ==
    IF n >= 0 THEN (n * num) \div den ELSE -(((-n) * num) \div den)
\* an angle brought into (-PI, PI], the range of atan2
WrapAngle(a) == ((a + PI - 1) % (2 * PI)) - (PI - 1)

Sph(t, p, r) == [theta |-> t, phi |-> p, radius |-> r]


\* ---------------------------------------------------------------------
\* Inputs of the environment, drawn from small sets
\* ---------------------------------------------------------------------
Tokens == 1..MaxOps
\* file name extensions of loadFile / loadFromUrl ("nofile": loadFile(null))
Extensions == {"ply", "obj", "other"}
\* points of space the orbit target can be at: 0 the world origin, 1 a
\* bounding-volume centre away from the origin, 2 a point reached by
\* zoom-to-cursor
Centres == {0, 1}
\* largest bounding-box dimension of an asset (0: degenerate, 4000: 40 units)
MaxDims == {0, 4000}
\* directions (azimuth, polar) from the orbit target to the primary camera
\* after the target moved under it; the second lies inside the polar margin
Dirs == {[theta |-> 0, phi |-> HalfPI], [theta |-> -6000, phi |-> 100]}
\* pointer positions on a 100 x 100 canvas: in the top-left, the top-right
\* and the bottom-right quarter
Points == {<<20, 20>>, <<60, 20>>, <<60, 60>>}
\* milliseconds between two pointer samples
Dts == {17}
\* deltaY of a wheel event (a trackpad step)
WheelDeltas == {-10, 10}
EnergyLevels == {0, 100}
\* distance of a stale (detached) view camera from the orbit target
StaleDistances == {20, 700}
\* the stale-camera inputs of a handler on a path that does not read them
NoStale == [r |-> CHOOSE r \in StaleDistances : TRUE,
            d |-> CHOOSE d \in Dirs : TRUE]

Positions == {"top-left", "top-right", "bottom-left", "bottom-right"}
\* view objects: the single-layout view and the four quad-layout views
thetaOffset(view) ==
    CASE view = "main" -> -HalfPI
      [] view = "north" -> HalfPI
      [] view = "east" -> 0
      [] view = "west" -> PI
      [] view = "south" -> -HalfPI
\* screenRotation of a view, in eighths of a turn
screenRotation(view) ==
    CASE view = "main" -> 0
      [] view = "north" -> 7
      [] view = "east" -> 1
      [] view = "west" -> 5
      [] view = "south" -> 3
\* viewport rectangle of a view as <<x, y, width, height>>, in halves of
\* the canvas
viewportRect(view) ==
    CASE view = "main" -> <<0, 0, 2, 2>>
      [] view = "north" -> <<0, 1, 1, 1>>
      [] view = "east" -> <<1, 1, 1, 1>>
      [] view = "west" -> <<0, 0, 1, 1>>
      [] view = "south" -> <<1, 0, 1, 1>>
views(mode) ==
    IF mode = "quad" THEN <<"north", "east", "west", "south">> ELSE <<"main">>
primaryView(mode) == IF mode = "quad" THEN "east" ELSE "main"

\* ---------------------------------------------------------------------
\* Orbit math.  An offset vector is held in polar form (length, azimuth,
\* polar angle); the zero vector has length 0.
\* ---------------------------------------------------------------------
setOrbitFromVector(dist, theta, phi) ==
    IF dist = 0 THEN Sph(0, HalfPI, 0) ELSE Sph(theta, phi, dist)

\* THREE.Spherical.makeSafe: phi kept inside [EPS, PI - EPS], EPS = 1e-6
makeSafe(o) == [o EXCEPT !.phi = clamp(@, 0, PI)]

\* ---------------------------------------------------------------------
\* Render scheduler
\* ---------------------------------------------------------------------
\* a requestRender that marks the picture dirty without restarting the loop
requestRenderNoRestart(s) ==
    [s EXCEPT !.needsRender = TRUE]

\* a requestRender that registers the frame callback on every call
requestRenderRegistersAgain(s) ==
    [s EXCEPT !.needsRender = TRUE,
              !.renderLoopActive = TRUE,
              !.loopRegistrations = @ + 1]

requestRender(s) ==
    [s EXCEPT !.needsRender = TRUE,
              !.renderLoopActive = TRUE,
              !.loopRegistrations = IF s.renderLoopActive THEN @ ELSE @ + 1]

\* ---------------------------------------------------------------------
\* Asset disposal
\* ---------------------------------------------------------------------
\* a disposeModel that releases the renderable but keeps the model slot
disposeModelKeepsSlot(s) ==
    IF s.model = 0 THEN s
    ELSE [s EXCEPT !.scene = @ \ {s.model},
                   !.disposed = @ \cup {s.model}]

disposeModel(s) ==
    IF s.model = 0 THEN s
    ELSE [s EXCEPT !.scene = @ \ {s.model},
                   !.disposed = @ \cup {s.model},
                   !.model = 0]

\* a load head without the defensive sweep of stray renderables
disposeStaleMeshesSkipped(s) == s

disposeStaleMeshes(s) ==
    [s EXCEPT !.scene = {x \in @ : x = s.model},
              !.disposed = @ \cup {x \in s.scene : x # s.model}]

\* a revoke that releases the blob URL but keeps the field
revokeKeepsField(s) ==
    IF s.currentObjectUrl = 0 THEN s
    ELSE [s EXCEPT !.liveUrls = @ \ {s.currentObjectUrl}]

revokeCurrentObjectUrl(s) ==
    IF s.currentObjectUrl = 0 THEN s
    ELSE [s EXCEPT !.liveUrls = @ \ {s.currentObjectUrl},
                   !.currentObjectUrl = 0]

\* ---------------------------------------------------------------------
\* Camera rig
\* ---------------------------------------------------------------------
\* A camera created by createView: at the world origin, up = +Z, no roll.
\* Seen from the orbit target it is at distance 0 when the target is the
\* world origin, else in direction d (its distance is set by the next
\* updateViewCameras).
NewCamera(target, d) ==
    IF target = 0
    THEN [dist |-> 0, theta |-> 0, phi |-> HalfPI, up |-> 1, roll |-> 0]
    ELSE [dist |-> 1, theta |-> d.theta, phi |-> d.phi, up |-> 1, roll |-> 0]

\* The orbit target is moved to point t while the primary camera stays
\* where it is: the camera is then seen from the target in direction d.
MoveTarget(s, t, d) ==
    IF t = s.orbitTarget THEN s
    ELSE [s EXCEPT !.orbitTarget = t,
                   !.camera = [@ EXCEPT !.dist = IF @ = 0 THEN 1 ELSE @,
                                        !.theta = d.theta,
                                        !.phi = d.phi]]

updateViewCameras(s) ==
    LET rolled == IF screenRotation(primaryView(s.viewMode)) # 0
                  THEN (s.camera.roll + screenRotation(primaryView(s.viewMode))) % 8
                  ELSE s.camera.roll
    IN [s EXCEPT !.camera = [@ EXCEPT
            !.dist = IF @ > 0 THEN s.spherical.radius ELSE @,
            !.roll = rolled]]

rotateCamera(s, dTheta, dPhi) ==
    LET c == s.camera
        p1 == c.phi + c.up * dPhi
        over == p1 < 0 \/ p1 > PI
        p2 == IF p1 < 0 THEN -p1 ELSE IF p1 > PI THEN 2 * PI - p1 ELSE p1
        t2 == WrapAngle(c.theta + dTheta + (IF over THEN PI ELSE 0))
        c2 == IF c.dist = 0
              THEN [c EXCEPT !.roll = 0]
              ELSE [c EXCEPT !.theta = t2, !.phi = p2,
                             !.up = IF over THEN -c.up ELSE c.up,
                             !.roll = 0]
        o == setOrbitFromVector(c2.dist, c2.theta, c2.phi)
    IN [s EXCEPT !.camera = c2, !.spherical = o, !.sphericalGoal = o]

\* the pole wrap of updateCamera: reflect phi at a bound and add PI to theta
RECURSIVE WrapPhi(_)
WrapPhi(g) ==
    IF g.phi >= minPolarAngle /\ g.phi <= maxPolarAngle THEN g
    ELSE LET g1 == IF g.phi < minPolarAngle
                   THEN [g EXCEPT !.phi = 2 * minPolarAngle - g.phi,
                                  !.theta = g.theta + PI]
                   ELSE g
             g2 == IF g1.phi > maxPolarAngle
                   THEN [g1 EXCEPT !.phi = 2 * maxPolarAngle - g1.phi,
                                   !.theta = g1.theta + PI]
                   ELSE g1
         IN WrapPhi(g2)

dampingFactor == 15

\* a damping step that never snaps to the goal
DampedNoSnap(cur, goal) ==
    Sph(cur.theta + Scale(goal.theta - cur.theta, dampingFactor, 100),
        cur.phi + Scale(goal.phi - cur.phi, dampingFactor, 100),
        cur.radius + Scale(goal.radius - cur.radius, dampingFactor, 100))

Damped(cur, goal) ==
    LET nt == cur.theta + Scale(goal.theta - cur.theta, dampingFactor, 100)
        np == cur.phi + Scale(goal.phi - cur.phi, dampingFactor, 100)
        nr == cur.radius + Scale(goal.radius - cur.radius, dampingFactor, 100)
    IN IF nt = cur.theta /\ np = cur.phi /\ nr = cur.radius
       THEN goal
       ELSE Sph(nt, np, nr)

\* updateCamera(immediate); its return value is left in s.cameraChanged
updateCamera(s, immediate) ==
    LET g == WrapPhi([s.sphericalGoal EXCEPT
                        !.radius = clamp(@, minDistance, maxDistance)])
        cur == IF immediate THEN g ELSE Damped(s.spherical, g)
        s1 == updateViewCameras([s EXCEPT !.sphericalGoal = g, !.spherical = cur])
        positionChanged == s1.camera.dist # s.camera.dist
        rotationChanged == s1.camera.roll # s.camera.roll
        animating == \/ g.theta # cur.theta
                     \/ g.phi # cur.phi
                     \/ g.radius # cur.radius
    IN [s1 EXCEPT !.cameraChanged =
            immediate \/ positionChanged \/ rotationChanged \/ animating]

syncDefaultOrbit(s) ==
    LET o == [makeSafe(setOrbitFromVector(s.defaultDistance, InitialTheta, InitialPhi))
                EXCEPT !.radius = s.defaultDistance]
    IN updateViewCameras([s EXCEPT !.defaultSpherical = o,
                                   !.spherical = o,
                                   !.sphericalGoal = o])

\* a resetView that snaps the camera only when asked to
resetViewDamped(s, immediate, d) ==
    LET s1 == [s EXCEPT !.pointerState = [@ EXCEPT !.isDragging = FALSE,
                                                   !.axisLock = "none"],
                        !.isSpinning = FALSE,
                        !.velocityTheta = 0,
                        !.velocityPhi = 0]
        s2 == MoveTarget(s1, s1.defaultTarget, d)
        s3 == [s2 EXCEPT !.sphericalGoal = s2.defaultSpherical,
                         !.spherical = IF immediate THEN s2.defaultSpherical ELSE @]
    IN requestRender(updateCamera(s3, immediate))

resetView(s, immediate, d) ==
    LET s1 == [s EXCEPT !.pointerState = [@ EXCEPT !.isDragging = FALSE,
                                                   !.axisLock = "none"],
                        !.isSpinning = FALSE,
                        !.velocityTheta = 0,
                        !.velocityPhi = 0]
        s2 == MoveTarget(s1, s1.defaultTarget, d)
        s3 == [s2 EXCEPT !.sphericalGoal = s2.defaultSpherical,
                         !.spherical = IF immediate THEN s2.defaultSpherical ELSE @]
    IN requestRender(updateCamera(s3, TRUE))

fitViewToModel(s, centre, maxDim, d) ==
    LET s1 == MoveTarget([s EXCEPT !.defaultTarget = centre], centre, d)
        s2 == [s1 EXCEPT !.defaultDistance = (3 * Max(maxDim, 1)) \div 2]
    IN requestRender(resetView(syncDefaultOrbit(s2), TRUE, d))


\* ---------------------------------------------------------------------
\* Asset lifecycle
\* ---------------------------------------------------------------------
NoLoad == [kind |-> "none", st |-> "none"]
InFlight(kind) == [kind |-> kind, st |-> "loading"]

loadPlyFile(s, loadToken) ==
    requestRender([s EXCEPT !.scene = @ \cup {loadToken},
                            !.model = loadToken,
                            !.loads[loadToken] = InFlight("ply")])

\* up to its first await an async load only starts the fetch
loadObjFile(s, loadToken) ==
    [s EXCEPT !.loads[loadToken] = InFlight("obj")]

loadObjWithMtl(s, loadToken) ==
    [s EXCEPT !.loads[loadToken] = InFlight("objmtl")]

\* the synchronous head shared by loadFile and loadFromUrl
LoadCleanup(s) ==
    requestRender(revokeCurrentObjectUrl(disposeStaleMeshes(disposeModel(s))))

\* a loadFile that returns for a missing file before it takes a token
loadFileChecksFileFirst(s, ext) ==
    LET loadToken == s.currentLoadToken + 1
        s1 == LoadCleanup([s EXCEPT !.currentLoadToken = loadToken])
        s2 == [s1 EXCEPT !.liveUrls = @ \cup {loadToken},
                         !.currentObjectUrl = loadToken]
    IN CASE ext = "nofile" -> LoadCleanup(s)
         [] ext = "ply" -> loadPlyFile(s2, loadToken)
         [] ext = "obj" -> loadObjFile(s2, loadToken)
         [] OTHER -> revokeCurrentObjectUrl(s2)

loadFile(s, ext) ==
    LET loadToken == s.currentLoadToken + 1
        s1 == LoadCleanup([s EXCEPT !.currentLoadToken = loadToken])
        s2 == [s1 EXCEPT !.liveUrls = @ \cup {loadToken},
                         !.currentObjectUrl = loadToken]
    IN CASE ext = "nofile" -> s1
         [] ext = "ply" -> loadPlyFile(s2, loadToken)
         [] ext = "obj" -> loadObjFile(s2, loadToken)
         [] OTHER -> revokeCurrentObjectUrl(s2)

\* a loadFromUrl whose cleanup leaves the blob URL of the file before it
loadFromUrlKeepsBlobUrl(s, ext) ==
    LET loadToken == s.currentLoadToken + 1
        s1 == requestRender(disposeStaleMeshes(disposeModel(
                  [s EXCEPT !.currentLoadToken = loadToken])))
    IN CASE ext = "ply" -> loadPlyFile(s1, loadToken)
         [] ext = "obj" -> loadObjWithMtl(s1, loadToken)
         [] OTHER -> s1

loadFromUrl(s, ext) ==
    LET loadToken == s.currentLoadToken + 1
        s1 == LoadCleanup([s EXCEPT !.currentLoadToken = loadToken])
    IN CASE ext = "ply" -> loadPlyFile(s1, loadToken)
         [] ext = "obj" -> loadObjWithMtl(s1, loadToken)
         [] OTHER -> s1

updateEnergy(s, energy) ==
    requestRender([s EXCEPT !.currentEnergy = energy])

\* the continuation of newModel.initialized in loadPlyFile
plyInitialized(s, loadToken, centre, maxDim, d) ==
    LET s1 == [s EXCEPT !.loads[loadToken] = NoLoad]
    IN IF s.model # loadToken \/ loadToken # s.currentLoadToken
       THEN s1
       ELSE [fitViewToModel(s1, centre, maxDim, d) EXCEPT !.fitToken = loadToken]

\* an OBJ continuation that fits the view without looking at the token
objParsedFitsAlways(s, loadToken, centre, maxDim, d) ==
    LET s1 == [s EXCEPT !.loads[loadToken] = NoLoad,
                        !.scene = @ \cup {loadToken},
                        !.model = loadToken]
        s2 == requestRender(updateEnergy(s1, s1.currentEnergy))
    IN [fitViewToModel(s2, centre, Min(maxDim, ScaleLimit), d)
           EXCEPT !.fitToken = loadToken]

\* the part of loadObjFile / loadObjWithMtl after the fetch and the parse
objParsed(s, loadToken, centre, maxDim, d) ==
    LET s1 == [s EXCEPT !.loads[loadToken] = NoLoad,
                        !.scene = @ \cup {loadToken},
                        !.model = loadToken]
        s2 == requestRender(updateEnergy(s1, s1.currentEnergy))
    IN IF s2.model = loadToken /\ loadToken = s2.currentLoadToken
       THEN [fitViewToModel(s2, centre, Min(maxDim, ScaleLimit), d)
                EXCEPT !.fitToken = loadToken]
       ELSE s2

\* a rejected fetch or a parse error
loadFailed(s, loadToken) ==
    [s EXCEPT !.loads[loadToken] = NoLoad]

\* Frames that do not spin and the continuations of loads are not counted:
\* the first converge, the second happen once per load.
Counted(s, op) ==
    CASE op \in {"loaded", "loadFailed", "new"} -> FALSE
      [] op = "frame" -> s.isSpinning /\ ~s.pointerState.isDragging
      [] OTHER -> TRUE

Marked(s, op, tok) ==
    [s EXCEPT !.lastOp = op, !.lastTok = tok, !.lastAt = <<0, 0>>,
              !.cameraChanged = IF op = "frame" THEN @ ELSE FALSE,
              !.nOps = IF Counted(s, op) THEN @ + 1 ELSE @]

\* the pointer position a handler read from its event
At(s, p) == [s EXCEPT !.lastAt = p]

LoadFile ==
    /\ \E ext \in Extensions \cup {"nofile"} :
          Becomes(Marked(loadFile(This, ext), "loadFile:" \o ext, currentLoadToken + 1))

LoadFromUrl ==
    /\ \E ext \in Extensions :
          Becomes(Marked(loadFromUrl(This, ext), "loadFromUrl:" \o ext, currentLoadToken + 1))

PlyInitialized ==
    \E t \in Tokens, centre \in Centres, maxDim \in MaxDims, d \in Dirs :
        /\ loads[t] = InFlight("ply")
        /\ Becomes(Marked(plyInitialized(This, t, centre, maxDim, d), "loaded", t))

ObjParsed ==
    \E t \in Tokens, centre \in Centres, maxDim \in MaxDims, d \in Dirs :
        /\ loads[t] \in {InFlight("obj"), InFlight("objmtl")}
        /\ Becomes(Marked(objParsed(This, t, centre, maxDim, d), "loaded", t))

LoadFailed ==
    \E t \in Tokens :
        /\ loads[t].st = "loading"
        /\ Becomes(Marked(loadFailed(This, t), "loadFailed", t))

\* ---------------------------------------------------------------------
\* Mounting, layout
\* ---------------------------------------------------------------------
setupViews(s, mode, d) ==
    LET placed == IF mode = "quad"
                  THEN [p \in Positions |->
                          CASE p = "top-left" -> "north"
                            [] p = "top-right" -> "east"
                            [] p = "bottom-left" -> "west"
                            [] p = "bottom-right" -> "south"]
                  ELSE [s.viewByPosition EXCEPT !["bottom-right"] = "main"]
    IN [s EXCEPT !.viewMode = mode,
                 !.viewByPosition = placed,
                 !.camera = NewCamera(s.orbitTarget, d)]

\* a mode switch that lets the camera damp toward the goal
setViewModeDamped(s, mode, d) ==
    requestRender(updateCamera(setupViews(s, mode, d), FALSE))

setViewMode(s, mode, d) ==
    requestRender(updateCamera(setupViews(s, mode, d), TRUE))

mount(s) ==
    requestRender(updateCamera([s EXCEPT !.container = TRUE, !.viewport = TRUE], TRUE))

\* an unmount that stops the loop but leaves the dirty flag as it is
unmountKeepsDirty(s) ==
    LET s1 == revokeCurrentObjectUrl(disposeStaleMeshes(disposeModel(
                  [s EXCEPT !.viewport = FALSE])))
    IN [s1 EXCEPT !.renderLoopActive = FALSE,
                  !.container = FALSE]

unmount(s) ==
    LET s1 == revokeCurrentObjectUrl(disposeStaleMeshes(disposeModel(
                  [s EXCEPT !.viewport = FALSE])))
    IN [s1 EXCEPT !.renderLoopActive = FALSE,
                  !.needsRender = FALSE,
                  !.container = FALSE]

Mount ==
    /\ ~viewport
    /\ Becomes(Marked(mount(This), "mount", 0))

Unmount ==
    Becomes(Marked(unmount(This),
                   IF lastOp \in {"unmount", "unmount again"}
                   THEN "unmount again" ELSE "unmount", 0))

SetViewMode ==
    \E mode \in {"single", "quad"}, d \in Dirs :
        Becomes(Marked(setViewMode(This, mode, d), "setViewMode:" \o mode, 0))

ResetView ==
    \E immediate \in BOOLEAN, d \in Dirs :
        Becomes(Marked(resetView(This, immediate, d), "resetView", 0))

UpdateEnergy ==
    \E energy \in EnergyLevels :
        Becomes(Marked(updateEnergy(This, energy), "updateEnergy", 0))

handleResize(s) == requestRender(s)

Resize ==
    /\ viewport
    /\ Becomes(Marked(handleResize(This), "resize", 0))


\* ---------------------------------------------------------------------
\* Gestures
\* ---------------------------------------------------------------------
StopSpin(s) ==
    [s EXCEPT !.isSpinning = FALSE, !.velocityTheta = 0, !.velocityPhi = 0]

\* a pointer-down that starts the drag without cancelling the spin
handlePointerDownKeepsSpin(s, x, y) ==
    IF ~s.viewport THEN s
    ELSE requestRender([s EXCEPT
            !.pointerState = [isDragging |-> TRUE, lastX |-> x, lastY |-> y,
                              axisLock |-> "none"],
            !.pointerCapture = TRUE])

handlePointerDown(s, x, y) ==
    IF ~s.viewport THEN s
    ELSE requestRender([StopSpin(s) EXCEPT
            !.pointerState = [isDragging |-> TRUE, lastX |-> x, lastY |-> y,
                              axisLock |-> "none"],
            !.pointerCapture = TRUE])

\* (1 - velocitySmooth) * v + (d / dt) * frameTime * velocitySmooth,
\* velocitySmooth = 0.3, frameTime = 16.67 ms
SmoothedVelocity(v, d, dt) == Scale(v, 7, 10) + Scale(d, 5001, 1000 * dt)

handlePointerMove(s, x, y, dt) ==
    IF ~s.pointerState.isDragging THEN s
    ELSE LET deltaX == x - s.pointerState.lastX
             deltaY == y - s.pointerState.lastY
             dTheta == -deltaX * rotateSpeed
             dPhi == -deltaY * rotateSpeed
             s1 == [s EXCEPT !.pointerState = [@ EXCEPT !.lastX = x, !.lastY = y]]
             s2 == rotateCamera(s1, dTheta, dPhi)
         IN requestRender([s2 EXCEPT
                !.velocityTheta = SmoothedVelocity(@, dTheta, dt),
                !.velocityPhi = SmoothedVelocity(@, dPhi, dt)])

FastEnough(s) ==
    Abs(s.velocityTheta) > minVelocity \/ Abs(s.velocityPhi) > minVelocity

\* a pointer-up that never starts a spin
handlePointerUpNoSpin(s) ==
    IF ~s.viewport THEN s
    ELSE requestRender([s EXCEPT !.pointerState = [@ EXCEPT !.isDragging = FALSE,
                                                            !.axisLock = "none"],
                                 !.pointerCapture = FALSE])

handlePointerUp(s) ==
    IF ~s.viewport THEN s
    ELSE LET s1 == [s EXCEPT !.pointerState = [@ EXCEPT !.isDragging = FALSE,
                                                        !.axisLock = "none"],
                             !.pointerCapture = FALSE]
         IN requestRender([s1 EXCEPT !.isSpinning = @ \/ FastEnough(s1)])

\* a pointer-leave that starts the spin of a drag whatever its velocity
handlePointerLeaveAlwaysSpins(s) ==
    LET s1 == [s EXCEPT !.isSpinning = @ \/ s.pointerState.isDragging]
    IN requestRender([s1 EXCEPT !.pointerState = [@ EXCEPT !.isDragging = FALSE,
                                                           !.axisLock = "none"]])

handlePointerLeave(s) ==
    LET s1 == [s EXCEPT !.isSpinning =
                  @ \/ (s.pointerState.isDragging /\ FastEnough(s))]
    IN requestRender([s1 EXCEPT !.pointerState = [@ EXCEPT !.isDragging = FALSE,
                                                           !.axisLock = "none"]])

\* the view under the pointer; "none" stands for the undefined of a Map miss
getViewFromPointer(s, x, y, rectEmpty) ==
    IF ~s.viewport \/ rectEmpty THEN primaryView(s.viewMode)
    ELSE LET isLeft == 2 * x < 100
             isTop == 2 * y < 100
         IN CASE isTop /\ isLeft -> s.viewByPosition["top-left"]
              [] isTop /\ ~isLeft -> s.viewByPosition["top-right"]
              [] ~isTop /\ isLeft -> s.viewByPosition["bottom-left"]
              [] OTHER -> s.viewByPosition["bottom-right"]

\* exp(deltaY * 0.0015) in thousandths
zoomFactor(deltaY) == IF deltaY > 0 THEN 1015 ELSE IF deltaY < 0 THEN 985 ELSE 1000

\* The offset of targetView's camera from the orbit target, in polar form.
\* The primary camera is tracked; another view of the current layout sits
\* where updateViewCameras put it; a view of an earlier layout sits where
\* that layout left it (stale: distance r, direction d).
ViewOffset(s, view, r, d) ==
    IF view = primaryView(s.viewMode)
    THEN [dist |-> s.camera.dist, theta |-> s.camera.theta, phi |-> s.camera.phi]
    ELSE IF s.viewMode = "quad"
    THEN [dist |-> s.spherical.radius,
          theta |-> s.spherical.theta + thetaOffset(view),
          phi |-> s.spherical.phi]
    ELSE [dist |-> r, theta |-> d.theta, phi |-> d.phi]

\* a wheel handler that leaves a running spin alone
handleWheelKeepsSpin(s, x, y, deltaY, ctrlKey, rectEmpty, onTarget, r, d) ==
    LET s0 == s
        hit == getViewFromPointer(s0, x, y, rectEmpty)
        targetView == IF hit = "none" THEN primaryView(s0.viewMode) ELSE hit
    IN IF ctrlKey /\ s0.viewport
       THEN IF rectEmpty THEN s0
            ELSE LET off == ViewOffset(s0, targetView, r, d)
                     scaled == Scale(off.dist, zoomFactor(deltaY), 1000)
                     isPrimary == targetView = primaryView(s0.viewMode)
                     \* the focus is the target itself when the ray hits it,
                     \* and when the camera sits on the target
                     moved == ~onTarget /\ off.dist # 0
                     s1 == IF isPrimary
                           THEN [s0 EXCEPT !.camera.dist = scaled,
                                           !.orbitTarget = IF moved THEN 2 ELSE @]
                           ELSE IF moved THEN MoveTarget([s0 EXCEPT !.orbitTarget = 0], 2, d)
                           ELSE s0
                     temp0 == IF scaled = 0
                              THEN Sph(0, 0, s0.defaultDistance)
                              ELSE setOrbitFromVector(scaled, off.theta, off.phi)
                     temp == makeSafe([temp0 EXCEPT !.theta = @ - thetaOffset(targetView)])
                     goal == [temp EXCEPT !.radius = clamp(@, minDistance, maxDistance)]
                     s2 == [s1 EXCEPT !.sphericalGoal = goal,
                                      !.spherical = makeSafe(goal)]
                 IN requestRender(updateCamera(s2, TRUE))
       ELSE requestRender([s0 EXCEPT
               !.sphericalGoal.radius = clamp(@ + deltaY, minDistance, maxDistance)])

\* a wheel handler whose modifier zoom damps toward the new goal
handleWheelZoomDamped(s, x, y, deltaY, ctrlKey, rectEmpty, onTarget, r, d) ==
    LET s0 == StopSpin(s)
        hit == getViewFromPointer(s0, x, y, rectEmpty)
        targetView == IF hit = "none" THEN primaryView(s0.viewMode) ELSE hit
    IN IF ctrlKey /\ s0.viewport
       THEN IF rectEmpty THEN s0
            ELSE LET off == ViewOffset(s0, targetView, r, d)
                     scaled == Scale(off.dist, zoomFactor(deltaY), 1000)
                     isPrimary == targetView = primaryView(s0.viewMode)
                     \* the focus is the target itself when the ray hits it,
                     \* and when the camera sits on the target
                     moved == ~onTarget /\ off.dist # 0
                     s1 == IF isPrimary
                           THEN [s0 EXCEPT !.camera.dist = scaled,
                                           !.orbitTarget = IF moved THEN 2 ELSE @]
                           ELSE IF moved THEN MoveTarget([s0 EXCEPT !.orbitTarget = 0], 2, d)
                           ELSE s0
                     temp0 == IF scaled = 0
                              THEN Sph(0, 0, s0.defaultDistance)
                              ELSE setOrbitFromVector(scaled, off.theta, off.phi)
                     temp == makeSafe([temp0 EXCEPT !.theta = @ - thetaOffset(targetView)])
                     goal == [temp EXCEPT !.radius = clamp(@, minDistance, maxDistance)]
                     s2 == [s1 EXCEPT !.sphericalGoal = goal]
                 IN requestRender(updateCamera(s2, FALSE))
       ELSE requestRender([s0 EXCEPT
               !.sphericalGoal.radius = clamp(@ + deltaY, minDistance, maxDistance)])

handleWheel(s, x, y, deltaY, ctrlKey, rectEmpty, onTarget, r, d) ==
    LET s0 == StopSpin(s)
        hit == getViewFromPointer(s0, x, y, rectEmpty)
        targetView == IF hit = "none" THEN primaryView(s0.viewMode) ELSE hit
    IN IF ctrlKey /\ s0.viewport
       THEN IF rectEmpty THEN s0
            ELSE LET off == ViewOffset(s0, targetView, r, d)
                     scaled == Scale(off.dist, zoomFactor(deltaY), 1000)
                     isPrimary == targetView = primaryView(s0.viewMode)
                     \* the focus is the target itself when the ray hits it,
                     \* and when the camera sits on the target
                     moved == ~onTarget /\ off.dist # 0
                     s1 == IF isPrimary
                           THEN [s0 EXCEPT !.camera.dist = scaled,
                                           !.orbitTarget = IF moved THEN 2 ELSE @]
                           ELSE IF moved THEN MoveTarget([s0 EXCEPT !.orbitTarget = 0], 2, d)
                           ELSE s0
                     temp0 == IF scaled = 0
                              THEN Sph(0, 0, s0.defaultDistance)
                              ELSE setOrbitFromVector(scaled, off.theta, off.phi)
                     temp == makeSafe([temp0 EXCEPT !.theta = @ - thetaOffset(targetView)])
                     goal == [temp EXCEPT !.radius = clamp(@, minDistance, maxDistance)]
                     s2 == [s1 EXCEPT !.sphericalGoal = goal,
                                      !.spherical = makeSafe(goal)]
                 IN requestRender(updateCamera(s2, TRUE))
       ELSE requestRender([s0 EXCEPT
               !.sphericalGoal.radius = clamp(@ + deltaY, minDistance, maxDistance)])

PointerDown ==
    /\ viewport
    /\ \E p \in Points :
          Becomes(At(Marked(handlePointerDown(This, p[1], p[2]), "pointerdown", 0), p))

PointerMove ==
    /\ viewport
    /\ \E p \in Points, dt \in Dts :
          Becomes(At(Marked(handlePointerMove(This, p[1], p[2], dt),
                            IF pointerState.isDragging
                            THEN "pointermove" ELSE "pointermove:idle", 0),
                     IF pointerState.isDragging THEN p ELSE <<0, 0>>))

PointerUp ==
    /\ viewport
    /\ Becomes(Marked(handlePointerUp(This), "pointerup", 0))

PointerLeave ==
    /\ viewport
    /\ Becomes(Marked(handlePointerLeave(This), "pointerleave", 0))

Wheel ==
    /\ viewport
    /\ \E p \in Points, deltaY \in WheelDeltas :
          \/ Becomes(Marked(handleWheel(This, p[1], p[2], deltaY, FALSE, FALSE, TRUE,
                                        NoStale.r, NoStale.d), "wheel", 0))
          \/ Becomes(Marked(handleWheel(This, p[1], p[2], deltaY, TRUE, TRUE, TRUE,
                                        NoStale.r, NoStale.d), "wheel:ctrl:norect", 0))
          \/ \E onTarget \in BOOLEAN, r \in StaleDistances, d \in Dirs :
                Becomes(Marked(handleWheel(This, p[1], p[2], deltaY, TRUE, FALSE, onTarget,
                                           r, d), "wheel:ctrl", 0))

\* ---------------------------------------------------------------------
\* The frame callback
\* ---------------------------------------------------------------------
\* renderView(view): viewport and scissor set to the view's rectangle, then
\* one draw of the scene with the view's camera
renderView(view) == [view |-> view, rect |-> viewportRect(view)]

\* renderer.clear() followed by renderView for each view of the list
renderViews(s) ==
    <<"clear">> \o [i \in 1..Len(views(s.viewMode)) |-> renderView(views(s.viewMode)[i])]

\* a frame callback whose inertia step ends the spin
renderLoopStopsSpin(s) ==
    LET s1 == IF s.currentEnergy > 1 THEN [s EXCEPT !.needsRender = TRUE] ELSE s
        spinning == s1.isSpinning /\ ~s1.pointerState.isDragging
        s2 == IF spinning
              THEN StopSpin(rotateCamera(s1, s1.velocityTheta, s1.velocityPhi))
              ELSE s1
        s3 == updateCamera(s2, FALSE)
        draws == s3.needsRender \/ s3.cameraChanged \/ spinning
        s4 == IF draws
              THEN [s3 EXCEPT !.needsRender = FALSE, !.drawCalls = renderViews(s3)]
              ELSE s3
    IN IF ~s4.cameraChanged /\ ~s4.needsRender /\ ~spinning
       THEN [s4 EXCEPT !.renderLoopActive = FALSE]
       ELSE s4

\* a frame callback that draws whether or not anything changed
renderLoopAlwaysDraws(s) ==
    LET s1 == IF s.currentEnergy > 1 THEN [s EXCEPT !.needsRender = TRUE] ELSE s
        spinning == s1.isSpinning /\ ~s1.pointerState.isDragging
        s2 == IF spinning
              THEN rotateCamera(s1, s1.velocityTheta, s1.velocityPhi)
              ELSE s1
        s3 == updateCamera(s2, FALSE)
        draws == TRUE
        s4 == IF draws
              THEN [s3 EXCEPT !.needsRender = FALSE, !.drawCalls = renderViews(s3)]
              ELSE s3
    IN IF ~s4.cameraChanged /\ ~s4.needsRender /\ ~spinning
       THEN [s4 EXCEPT !.renderLoopActive = FALSE]
       ELSE s4

\* a frame callback that neither draws nor keeps the loop for a dirty mark
\* alone
renderLoopIgnoresMark(s) ==
    LET s1 == IF s.currentEnergy > 1 THEN [s EXCEPT !.needsRender = TRUE] ELSE s
        spinning == s1.isSpinning /\ ~s1.pointerState.isDragging
        s2 == IF spinning
              THEN rotateCamera(s1, s1.velocityTheta, s1.velocityPhi)
              ELSE s1
        s3 == updateCamera(s2, FALSE)
        draws == s3.cameraChanged \/ spinning
        s4 == IF draws
              THEN [s3 EXCEPT !.needsRender = FALSE, !.drawCalls = renderViews(s3)]
              ELSE s3
    IN IF ~s4.cameraChanged /\ ~spinning
       THEN [s4 EXCEPT !.renderLoopActive = FALSE]
       ELSE s4

renderLoop(s) ==
    LET s1 == IF s.currentEnergy > 1 THEN [s EXCEPT !.needsRender = TRUE] ELSE s
        spinning == s1.isSpinning /\ ~s1.pointerState.isDragging
        s2 == IF spinning
              THEN rotateCamera(s1, s1.velocityTheta, s1.velocityPhi)
              ELSE s1
        s3 == updateCamera(s2, FALSE)
        draws == s3.needsRender \/ s3.cameraChanged \/ spinning
        s4 == IF draws
              THEN [s3 EXCEPT !.needsRender = FALSE, !.drawCalls = renderViews(s3)]
              ELSE s3
    IN IF ~s4.cameraChanged /\ ~s4.needsRender /\ ~spinning
       THEN [s4 EXCEPT !.renderLoopActive = FALSE]
       ELSE s4

Frame ==
    /\ renderLoopActive
    /\ Becomes(Marked(renderLoop(This), "frame", 0))

\* ---------------------------------------------------------------------
\* The viewer after its constructor
\* ---------------------------------------------------------------------
Blank ==
    [scene |-> {}, model |-> 0, disposed |-> {}, currentObjectUrl |-> 0,
     liveUrls |-> {}, currentLoadToken |-> 0, loads |-> [t \in Tokens |-> NoLoad],
     viewport |-> FALSE, container |-> FALSE, viewMode |-> "single",
     viewByPosition |-> [p \in Positions |-> "none"],
     camera |-> NewCamera(0, CHOOSE d \in Dirs : TRUE),
     orbitTarget |-> 0, defaultTarget |-> 0, defaultDistance |-> InitialDistance,
     defaultSpherical |-> Sph(0, 0, 1), spherical |-> Sph(0, 0, 1),
     sphericalGoal |-> Sph(0, 0, 1),
     pointerState |-> [isDragging |-> FALSE, lastX |-> 0, lastY |-> 0,
                       axisLock |-> "none"],
     pointerCapture |-> FALSE,
     velocityTheta |-> 0, velocityPhi |-> 0, isSpinning |-> FALSE,
     needsRender |-> TRUE, renderLoopActive |-> FALSE, currentEnergy |-> 100,
     lastOp |-> "new", lastTok |-> 0, lastAt |-> <<0, 0>>, drawCalls |-> << >>, loopRegistrations |-> 0,
     cameraOffset |-> <<0, 0, 0>>, mathCalls |-> {},
     pony |-> [energy |-> 1000, isVisible |-> TRUE, stored |-> -1,
               persisted |-> FALSE, mounted |-> FALSE],
     fitToken |-> 0, cameraChanged |-> FALSE,
     nOps |-> 0]

Constructed ==
    LET s1 == setupViews(Blank, "single", CHOOSE d \in Dirs : TRUE)
        s2 == syncDefaultOrbit([s1 EXCEPT !.orbitTarget = s1.defaultTarget])
    IN Marked(resetView(s2, TRUE, CHOOSE d \in Dirs : TRUE), "new", 0)

Init == Starts(Constructed)

Next ==
    \/ LoadFile
    \/ LoadFromUrl
    \/ PlyInitialized
    \/ ObjParsed
    \/ LoadFailed
    \/ Mount
    \/ Unmount
    \/ SetViewMode
    \/ ResetView
    \/ UpdateEnergy
    \/ Resize
    \/ PointerDown
    \/ PointerMove
    \/ PointerUp
    \/ PointerLeave
    \/ Wheel
    \/ Frame

Spec == Init /\ [][Next /\ nOps' <= MaxOps]_vars

\* The asset lifecycle with mounting and frames
NextAssets ==
    \/ LoadFile
    \/ LoadFromUrl
    \/ PlyInitialized
    \/ ObjParsed
    \/ LoadFailed
    \/ Mount
    \/ Unmount
    \/ Frame

SpecAssets == Init /\ [][NextAssets /\ nOps' <= MaxOps]_vars

\* The render scheduler under every operation that requests a frame
NextScheduler ==
    \/ LoadFile
    \/ LoadFromUrl
    \/ Mount
    \/ SetViewMode
    \/ ResetView
    \/ UpdateEnergy
    \/ Resize
    \/ PointerDown
    \/ PointerMove
    \/ PointerUp
    \/ PointerLeave
    \/ Wheel
    \/ Frame

SpecScheduler == Init /\ [][NextScheduler /\ nOps' <= MaxOps]_vars

\* ---------------------------------------------------------------------
\* Properties of the asset lifecycle
\* ---------------------------------------------------------------------
LoadOps ==
    {"loadFile:" \o ext : ext \in Extensions \cup {"nofile"}}
        \cup {"loadFromUrl:" \o ext : ext \in Extensions}
Unsupported == {"loadFile:other", "loadFromUrl:other"}
Unmounts == {"unmount", "unmount again"}

\* the camera and orbit state that fitViewToModel rewrites
rig == <<camera, orbitTarget, defaultTarget, defaultDistance, defaultSpherical,
         spherical, sphericalGoal>>

\* the fields of the object (everything but the history variables)
fields == <<scene, model, currentObjectUrl, liveUrls, currentLoadToken, loads,
            viewport, container, viewMode, viewByPosition, camera, orbitTarget,
            defaultTarget, defaultDistance, defaultSpherical, spherical,
            sphericalGoal, pointerState, velocityTheta, velocityPhi, isSpinning,
            needsRender, renderLoopActive, currentEnergy>>

\* C1: stale-load rejection.  The renderable of a load that a newer load
\* request has superseded is never in the scene and never in the model slot.
StaleLoadRejected ==
    \A t \in Tokens :
        t < currentLoadToken => (t \notin scene /\ model # t)

\* C2: fitViewToModel runs only in the completion of the load whose token is
\* current, and the completion of a superseded load leaves the camera and
\* orbit state as it was.
FitOnlyForCurrentLoad ==
    [][/\ fitToken' # 0 =>
            (lastOp' = "loaded" /\ fitToken' = lastTok'
                /\ lastTok' = currentLoadToken')
       /\ (lastOp' = "loaded" /\ lastTok' # currentLoadToken') =>
            UNCHANGED rig]_vars

\* a superseded OBJ load has completed
SupersededLoadCompleted ==
    /\ lastOp = "loaded"
    /\ lastTok # currentLoadToken
    /\ model = lastTok

\* C3: every loadFile / loadFromUrl call adds exactly one to currentLoadToken
\* and no other operation changes it.
TokenCountsLoadCalls ==
    [][currentLoadToken' =
          currentLoadToken + (IF lastOp' \in LoadOps THEN 1 ELSE 0)]_vars

\* loadFile(null) was the second load call
SecondTokenForNoFile ==
    /\ lastOp = "loadFile:nofile"
    /\ currentLoadToken = 2

\* C4: when loadFile / loadFromUrl returns, the model displayed before is out
\* of the scene and disposed, no renderable that was in the scene before is
\* still in it, the blob URL outstanding before is revoked, and the dirty
\* flag is set.
EagerCleanup ==
    [][lastOp' \in LoadOps =>
          /\ model # 0 => (model \notin scene' /\ model \in disposed')
          /\ scene \cap scene' = {}
          /\ currentObjectUrl # 0 => currentObjectUrl \notin liveUrls'
          /\ needsRender']_vars

\* a load call has disposed of the displayed model and of a stray renderable
CleanupTookModelAndStray ==
    /\ lastOp \in LoadOps
    /\ Cardinality(disposed) = 2

\* C5: a load request with an unsupported extension still cleans up, starts
\* no load, adds no renderable, leaves the model slot null, and leaves no
\* blob URL outstanding.
UnsupportedCleansUp ==
    [][lastOp' \in Unsupported =>
          /\ scene \subseteq disposed'
          /\ model # 0 => model \in disposed'
          /\ scene' = {}
          /\ model' = 0
          /\ loads' = loads
          /\ currentObjectUrl' = 0
          /\ lastTok' \notin liveUrls']_vars

\* loadFile with an unsupported extension has replaced a displayed model
UnsupportedFileAfterModel ==
    /\ lastOp = "loadFile:other"
    /\ disposed # {}

\* C6 as stated: an unsupported-input load request leaves the displayed model
\* in the model slot and in the scene.
UnsupportedKeepsPriorState ==
    [][lastOp' \in Unsupported =>
          /\ model' = model
          /\ model # 0 => model \in scene']_vars

\* C6: after an unsupported-input load request the viewer is empty, whether
\* or not a model was displayed before.
UnsupportedLeavesEmpty ==
    lastOp \in Unsupported => (model = 0 /\ scene = {})

\* loadFromUrl with an unsupported extension has replaced a displayed model
UnsupportedUrlAfterModel ==
    /\ lastOp = "loadFromUrl:other"
    /\ disposed # {}

\* C7: fail-empty.  After the fetch or parse of a load failed, no renderable
\* of that load is in the scene, and if the load is the current one the
\* viewer is empty.
FailEmpty ==
    lastOp = "loadFailed" =>
        /\ lastTok \notin scene
        /\ lastTok = currentLoadToken => (model = 0 /\ scene = {})

\* C8: unmount leaves the viewer unloaded, unscheduled and detached, and an
\* unmount that follows an unmount changes no field.
UnmountIdempotent ==
    [][/\ lastOp' \in Unmounts =>
            /\ model' = 0
            /\ currentObjectUrl' = 0
            /\ ~renderLoopActive'
            /\ ~needsRender'
            /\ ~viewport'
            /\ ~container'
       /\ lastOp' = "unmount again" => UNCHANGED fields]_vars

\* unmount was called twice on a viewer that never loaded anything
UnmountedTwiceNeverLoaded ==
    /\ lastOp = "unmount again"
    /\ currentLoadToken = 0

\* ---------------------------------------------------------------------
\* Properties of the render scheduler
\* ---------------------------------------------------------------------
Settled ==
    /\ ~pointerState.isDragging
    /\ ~isSpinning
    /\ ~needsRender
    /\ spherical = sphericalGoal

\* C9: a frame that starts with no drag, no spin, no dirty mark and
\* current = goal reports no camera change and stops the loop.
SettledFrameStopsLoop ==
    [][(lastOp' = "frame" /\ renderLoopActive /\ Settled) =>
          (~cameraChanged' /\ ~renderLoopActive')]_vars

\* the operations of C10, by the label they leave in lastOp
PictureOps ==
    LoadOps \cup {"pointerdown", "pointermove", "pointerup", "pointerleave",
                  "wheel", "wheel:ctrl", "resize", "setViewMode:single",
                  "setViewMode:quad", "resetView",
                  "updateEnergy"}

\* C10 as stated: every picture-changing operation on a mounted viewer,
\* every wheel event with the zoom modifier included, returns with the dirty
\* flag set and the loop registered.
EveryPictureOpSchedules ==
    (lastOp \in PictureOps \cup {"wheel:ctrl:norect"} /\ viewport) =>
        (needsRender /\ renderLoopActive)

\* C10: the same, but for a zoom-modifier wheel event only when the canvas
\* has a non-empty bounding rectangle.
PictureOpSchedules ==
    (lastOp \in PictureOps /\ viewport) => (needsRender /\ renderLoopActive)

\* a wheel event without the modifier has scheduled a frame on a mounted viewer
WheelScheduled ==
    /\ lastOp = "wheel"
    /\ viewport
    /\ needsRender
    /\ renderLoopActive

\* ---------------------------------------------------------------------
\* Properties of the gestures and the orbit camera
\* ---------------------------------------------------------------------
\* gestures, resets and inertia frames per behaviour
MaxGestures == 4

\* the viewer after its constructor and mount(container)
Mounted ==
    [Marked(mount(Constructed), "mount", 0) EXCEPT !.nOps = 0]

InitGestures == Starts(Mounted)

\* Gestures, reset and frames on a mounted viewer
NextGestures ==
    \/ ResetView
    \/ PointerDown
    \/ PointerMove
    \/ PointerUp
    \/ PointerLeave
    \/ Wheel
    \/ Frame

SpecGestures == InitGestures /\ [][NextGestures /\ nOps' <= MaxGestures]_vars

GestureOps ==
    {"pointerdown", "pointermove", "pointermove:idle", "pointerup",
     "pointerleave", "wheel", "wheel:ctrl", "wheel:ctrl:norect"}

\* C11: at the end of every gesture, reset and frame operation the goal
\* radius lies in [minDistance, maxDistance].
GoalRadiusClamped ==
    lastOp \in GestureOps \cup {"resetView", "frame"} =>
        (sphericalGoal.radius >= minDistance /\ sphericalGoal.radius <= maxDistance)

\* ---------------------------------------------------------------------
\* The hard-clamp, axis-lock variant of the viewer (src/unnamed/part_002).
\* Its fields are those of SplatViewer; every view camera, the primary one
\* included, is placed from `spherical` by updateViewCameras, so the rig is
\* `spherical` itself.  pointerdown, pointerup, pointerleave and the wheel
\* without modifier have the code of the handlers modelled above.
\* ---------------------------------------------------------------------
axisLockThreshold == 15

\* pointer positions of a drag; with the pointer captured a move can leave
\* the canvas
DragPoints == Points \cup {<<60, 300>>}

\* updateCamera of the variant: both goal radius and goal phi are clamped
updateCameraClamped(s, immediate) ==
    LET g == [s.sphericalGoal EXCEPT
                 !.radius = clamp(@, minDistance, maxDistance),
                 !.phi = clamp(@, minPolarAngle, maxPolarAngle)]
        cur == makeSafe(IF immediate THEN g ELSE Damped(s.spherical, g))
        animating == \/ g.theta # cur.theta
                     \/ g.phi # cur.phi
                     \/ g.radius # cur.radius
    IN [s EXCEPT !.sphericalGoal = g,
                 !.spherical = cur,
                 !.cameraChanged = immediate \/ cur # s.spherical \/ animating]

\* a pointer-move that decides the axis lock anew from every delta
handlePointerMoveRelocks(s, x, y, dt) ==
    IF ~s.pointerState.isDragging THEN s
    ELSE LET deltaX == x - s.pointerState.lastX
             deltaY == y - s.pointerState.lastY
             absX == Abs(deltaX)
             absY == Abs(deltaY)
             lock == IF 10 * absX > absY * axisLockThreshold THEN "horizontal"
                     ELSE IF 10 * absY > absX * axisLockThreshold THEN "vertical"
                     ELSE "none"
             dTheta == -deltaX * rotateSpeed
             dPhi == -deltaY * rotateSpeed
             s1 == [s EXCEPT !.pointerState =
                       [@ EXCEPT !.lastX = x, !.lastY = y, !.axisLock = lock]]
             s2 == CASE lock = "horizontal" ->
                          [s1 EXCEPT !.sphericalGoal.theta = @ + dTheta,
                                     !.velocityTheta = SmoothedVelocity(@, dTheta, dt),
                                     !.velocityPhi = 0]
                     [] lock = "vertical" ->
                          [s1 EXCEPT !.sphericalGoal.phi = @ + dPhi,
                                     !.velocityPhi = SmoothedVelocity(@, dPhi, dt),
                                     !.velocityTheta = 0]
                     [] OTHER ->
                          [s1 EXCEPT !.sphericalGoal.theta = @ + dTheta,
                                     !.sphericalGoal.phi = @ + dPhi,
                                     !.velocityTheta = SmoothedVelocity(@, dTheta, dt),
                                     !.velocityPhi = SmoothedVelocity(@, dPhi, dt)]
         IN requestRender(s2)

handlePointerMoveLocked(s, x, y, dt) ==
    IF ~s.pointerState.isDragging THEN s
    ELSE LET deltaX == x - s.pointerState.lastX
             deltaY == y - s.pointerState.lastY
             absX == Abs(deltaX)
             absY == Abs(deltaY)
             lock == IF s.pointerState.axisLock # "none"
                     THEN s.pointerState.axisLock
                     ELSE IF 10 * absX > absY * axisLockThreshold THEN "horizontal"
                     ELSE IF 10 * absY > absX * axisLockThreshold THEN "vertical"
                     ELSE "none"
             dTheta == -deltaX * rotateSpeed
             dPhi == -deltaY * rotateSpeed
             s1 == [s EXCEPT !.pointerState =
                       [@ EXCEPT !.lastX = x, !.lastY = y, !.axisLock = lock]]
             s2 == CASE lock = "horizontal" ->
                          [s1 EXCEPT !.sphericalGoal.theta = @ + dTheta,
                                     !.velocityTheta = SmoothedVelocity(@, dTheta, dt),
                                     !.velocityPhi = 0]
                     [] lock = "vertical" ->
                          [s1 EXCEPT !.sphericalGoal.phi = @ + dPhi,
                                     !.velocityPhi = SmoothedVelocity(@, dPhi, dt),
                                     !.velocityTheta = 0]
                     [] OTHER ->
                          [s1 EXCEPT !.sphericalGoal.theta = @ + dTheta,
                                     !.sphericalGoal.phi = @ + dPhi,
                                     !.velocityTheta = SmoothedVelocity(@, dTheta, dt),
                                     !.velocityPhi = SmoothedVelocity(@, dPhi, dt)]
         IN requestRender(s2)

renderLoopClamped(s) ==
    LET s1 == IF s.currentEnergy > 1 THEN [s EXCEPT !.needsRender = TRUE] ELSE s
        spinning == s1.isSpinning /\ ~s1.pointerState.isDragging
        s2 == IF spinning
              THEN [s1 EXCEPT !.sphericalGoal =
                       [@ EXCEPT !.theta = @ + s1.velocityTheta,
                                 !.phi = clamp(@ + s1.velocityPhi,
                                               minPolarAngle, maxPolarAngle)]]
              ELSE s1
        s3 == updateCameraClamped(s2, FALSE)
        draws == s3.needsRender \/ s3.cameraChanged \/ spinning
        s4 == IF draws
              THEN [s3 EXCEPT !.needsRender = FALSE, !.drawCalls = renderViews(s3)]
              ELSE s3
    IN IF ~s4.cameraChanged /\ ~s4.needsRender /\ ~spinning
       THEN [s4 EXCEPT !.renderLoopActive = FALSE]
       ELSE s4

PointerMoveLocked ==
    /\ viewport
    /\ \E p \in DragPoints, dt \in Dts :
          Becomes(At(Marked(handlePointerMoveLocked(This, p[1], p[2], dt),
                            IF pointerState.isDragging
                            THEN "pointermove" ELSE "pointermove:idle", 0),
                     IF pointerState.isDragging THEN p ELSE <<0, 0>>))

WheelZoom ==
    /\ viewport
    /\ \E p \in Points, deltaY \in WheelDeltas :
          Becomes(Marked(handleWheel(This, p[1], p[2], deltaY, FALSE, FALSE, TRUE,
                                     NoStale.r, NoStale.d), "wheel", 0))

FrameClamped ==
    /\ renderLoopActive
    /\ Becomes(Marked(renderLoopClamped(This), "frame", 0))

\* the variant after its constructor (quad layout) and mount(container)
MountedClamped ==
    LET s1 == [setupViews(Constructed, "quad", CHOOSE d \in Dirs : TRUE)
                  EXCEPT !.container = TRUE, !.viewport = TRUE]
    IN [Marked(requestRender(updateCameraClamped(s1, TRUE)), "mount", 0)
           EXCEPT !.nOps = 0]

InitClamped == Starts(MountedClamped)

NextClamped ==
    \/ PointerDown
    \/ PointerMoveLocked
    \/ PointerUp
    \/ PointerLeave
    \/ WheelZoom
    \/ FrameClamped

SpecClamped == InitClamped /\ [][NextClamped /\ nOps' <= MaxOps]_vars

\* C12: in the hard-clamp variant the goal polar angle lies in
\* [minPolarAngle, maxPolarAngle] at the end of every wheel and drag
\* operation.
GoalPhiClamped ==
    lastOp \in GestureOps =>
        (sphericalGoal.phi >= minPolarAngle /\ sphericalGoal.phi <= maxPolarAngle)

\* ---------------------------------------------------------------------
\* Damping: updateCamera() called again and again with a fixed goal
\* ---------------------------------------------------------------------
\* calls of updateCamera per behaviour
MaxCalls == 60

\* orbit states the damping starts from and goals it is driven to (goals
\* as updateCamera leaves them: inside the radius and polar ranges)
StartOrbits ==
    {Sph(t, p, r) : t \in {0, InitialTheta}, p \in {InitialPhi, 20000},
                    r \in {minDistance, InitialDistance, maxDistance}}
GoalOrbits ==
    {Sph(t, p, r) : t \in {InitialTheta, -10000}, p \in {InitialPhi, 300},
                    r \in {InitialDistance, minDistance}}

InitDamping ==
    \E cur \in StartOrbits, goal \in GoalOrbits :
        Starts([Constructed EXCEPT !.spherical = cur, !.sphericalGoal = goal])

DampStep ==
    /\ nOps < MaxCalls
    /\ Becomes(Marked(updateCamera(This, FALSE), "updateCamera", 0))

NextDamping == DampStep

SpecDamping == InitDamping /\ [][NextDamping]_vars

\* what is left between current and goal, over the three components
Remaining ==
    Abs(sphericalGoal.theta - spherical.theta)
        + Abs(sphericalGoal.phi - spherical.phi)
        + Abs(sphericalGoal.radius - spherical.radius)

\* C13: a non-immediate updateCamera leaves the goal alone, moves every
\* component of current by dampingFactor of its remaining difference, snaps
\* current to the goal when no component moves by a unit, and brings current
\* strictly closer to the goal as long as they differ (so current = goal
\* after a bounded number of calls).
DampingConverges ==
    [][lastOp' = "updateCamera" =>
          LET dt == Scale(sphericalGoal.theta - spherical.theta, dampingFactor, 100)
              dp == Scale(sphericalGoal.phi - spherical.phi, dampingFactor, 100)
              dr == Scale(sphericalGoal.radius - spherical.radius, dampingFactor, 100)
          IN /\ sphericalGoal' = sphericalGoal
             /\ IF dt = 0 /\ dp = 0 /\ dr = 0
                THEN spherical' = sphericalGoal
                ELSE spherical' = Sph(spherical.theta + dt, spherical.phi + dp,
                                      spherical.radius + dr)
             /\ spherical # sphericalGoal => Remaining' < Remaining]_vars

\* current has reached a goal it was far from, after more than 20 calls
DampedToGoal ==
    /\ lastOp = "updateCamera"
    /\ nOps > 20
    /\ nOps < MaxCalls
    /\ cameraChanged = FALSE
    /\ spherical = sphericalGoal
    /\ sphericalGoal.theta = -10000

\* ---------------------------------------------------------------------
\* Properties of the gesture state machine
\* ---------------------------------------------------------------------
\* C14: a pointer-down on a mounted viewer leaves no spin and no velocity,
\* and a drag without axis lock whose last position is the event position.
PointerDownStartsDrag ==
    lastOp = "pointerdown" =>
        /\ ~isSpinning
        /\ velocityTheta = 0
        /\ velocityPhi = 0
        /\ pointerState = [isDragging |-> TRUE, lastX |-> lastAt[1],
                           lastY |-> lastAt[2], axisLock |-> "none"]

\* a pointer-down that followed three other gestures
PointerDownAfterGestures ==
    /\ lastOp = "pointerdown"
    /\ nOps >= 4
    /\ lastAt = <<60, 20>>
    /\ pointerState.isDragging

Releases == {"pointerup", "pointerleave"}

\* C15: a pointer-up or pointer-leave leaves isDragging false; when it ends
\* a drag the viewer spins afterwards exactly if |velocityTheta| > 0.0005 or
\* |velocityPhi| > 0.0005 at that moment; when no drag was in progress it
\* leaves isSpinning as it was.
ReleaseDecision ==
    [][lastOp' \in Releases =>
          /\ ~pointerState'.isDragging
          /\ velocityTheta' = velocityTheta
          /\ velocityPhi' = velocityPhi
          /\ IF pointerState.isDragging
             THEN isSpinning' = (\/ Abs(velocityTheta) > minVelocity
                                 \/ Abs(velocityPhi) > minVelocity)
             ELSE isSpinning' = isSpinning]_vars

\* a drag was released into a spin
ReleasedIntoSpin ==
    /\ lastOp \in Releases
    /\ isSpinning
    /\ ~pointerState.isDragging
    /\ Abs(velocityTheta) > minVelocity

\* ---------------------------------------------------------------------
\* The spin after a released drag, under every operation of the viewer
\* ---------------------------------------------------------------------
\* operations per behaviour after the release
MaxSpinOps == 3

\* a mounted viewer whose first OBJ file was parsed and fitted: the model's
\* centre is off the world origin, so the primary camera is off the target
Fitted ==
    objParsed(loadFile(Mounted, "obj"), 1, 1, 4000, CHOOSE d \in Dirs : TRUE)

\* the viewers after pointer-down at (20, 20), pointer-move to q and pointer-up
Released ==
    {handlePointerUp(handlePointerMove(handlePointerDown(s, 20, 20),
                                       q[1], q[2], dt)) :
        s \in {Mounted, Fitted}, q \in Points, dt \in Dts}

InitSpin ==
    \E s \in Released :
        /\ s.isSpinning
        /\ Starts([Marked(s, "pointerup", 0) EXCEPT !.nOps = 0])

\* every operation of the viewer, followed until the spin has ended
NextSpin == isSpinning /\ Next

SpecSpin == InitSpin /\ [][NextSpin /\ nOps' <= MaxSpinOps]_vars

\* the operations the specification names as ending a spin
SpinEnders == {"pointerdown", "wheel", "wheel:ctrl", "wheel:ctrl:norect"}

\* the step is the completion of a load that fitted the view to the model
AutoFit == lastOp' = "loaded" /\ fitToken' = lastTok'

\* C16 as stated: a spinning viewer keeps spinning with the same velocities
\* across every operation other than a pointer-down or a wheel event.
SpinEndsOnlyByDragOrWheel ==
    [][isSpinning /\ lastOp' \notin SpinEnders =>
          /\ isSpinning'
          /\ velocityTheta' = velocityTheta
          /\ velocityPhi' = velocityPhi]_vars

\* C16 as the code has it: a spinning viewer keeps spinning with the same
\* velocities across frames and every other operation until a pointer-down,
\* a wheel event, resetView or the automatic fit after a load; each of those
\* leaves it not spinning with both velocities zero.
SpinEndsOnlyByDragWheelOrReset ==
    [][isSpinning =>
          IF lastOp' \in SpinEnders \cup {"resetView"} \/ AutoFit
          THEN ~isSpinning' /\ velocityTheta' = 0 /\ velocityPhi' = 0
          ELSE /\ isSpinning'
               /\ velocityTheta' = velocityTheta
               /\ velocityPhi' = velocityPhi]_vars

\* the viewer still spins after two inertia frames
SpinningAfterFrames ==
    /\ lastOp = "frame"
    /\ nOps >= 2
    /\ isSpinning
    /\ ~pointerState.isDragging
    /\ Abs(velocityTheta) > minVelocity

\* C17: while the viewer spins after a release with velocityPhi = 0, every
\* frame advances the orbit azimuth theta by exactly velocityTheta and
\* leaves both velocities unchanged.
InertiaAdvancesTheta ==
    [][(/\ isSpinning
        /\ ~pointerState.isDragging
        /\ velocityPhi = 0
        /\ lastOp' = "frame") =>
          /\ \/ spherical'.theta = spherical.theta + velocityTheta
             \/ sphericalGoal'.theta = sphericalGoal.theta + velocityTheta
          /\ velocityTheta' = velocityTheta
          /\ velocityPhi' = velocityPhi]_vars

AxisLockActivates ==
    [][(pointerState.isDragging /\ lastOp' = "pointermove") =>
          LET deltaX == lastAt'[1] - pointerState.lastX
              deltaY == lastAt'[2] - pointerState.lastY
              lock == pointerState'.axisLock
          IN /\ (/\ pointerState.axisLock = "none"
                 /\ 10 * Abs(deltaX) > axisLockThreshold * Abs(deltaY))
                    => lock = "horizontal"
             /\ (/\ pointerState.axisLock = "none"
                 /\ 10 * Abs(deltaY) > axisLockThreshold * Abs(deltaX))
                    => lock = "vertical"
             /\ lock = "horizontal" =>
                    /\ sphericalGoal'.phi = sphericalGoal.phi
                    /\ velocityPhi' = 0
             /\ lock = "vertical" =>
                    /\ sphericalGoal'.theta = sphericalGoal.theta
                    /\ velocityTheta' = 0
             /\ lock = "none" =>
                    /\ sphericalGoal'.theta = sphericalGoal.theta - deltaX * rotateSpeed
                    /\ sphericalGoal'.phi = sphericalGoal.phi - deltaY * rotateSpeed]_vars

\* ---------------------------------------------------------------------
\* Properties of the pointer capture
\* ---------------------------------------------------------------------
\* C20: when a pointer-up or a pointer-leave ends a drag, the viewport no
\* longer holds the pointer capture taken at pointer-down.
CaptureReleasedWithDrag ==
    [][(pointerState.isDragging /\ lastOp' \in Releases) =>
          ~pointerCapture']_vars

\* ---------------------------------------------------------------------
\* Reset after an automatic fit
\* ---------------------------------------------------------------------
\* gestures, frames and resets per behaviour after the fit
MaxResetOps == 3

\* the mounted viewers after a first PLY or OBJ file was loaded and fitted,
\* for every bounding-volume centre and size of the model
FittedModels ==
    {plyInitialized(loadFile(Mounted, "ply"), 1, centre, maxDim, d) :
        centre \in Centres, maxDim \in MaxDims, d \in Dirs}
    \cup
    {objParsed(loadFile(Mounted, "obj"), 1, centre, maxDim, d) :
        centre \in Centres, maxDim \in MaxDims, d \in Dirs}

InitReset ==
    \E s \in FittedModels :
        Starts([Marked(s, "loaded", 1) EXCEPT !.nOps = 0, !.fitToken = 1])

\* drags, wheel events, frames and resets on the fitted viewer
NextReset ==
    \/ PointerDown
    \/ PointerMove
    \/ PointerUp
    \/ Wheel
    \/ Frame
    \/ ResetView

SpecReset == InitReset /\ [][NextReset /\ nOps' <= MaxResetOps]_vars

\* C21: after resetView the current orbit is the default orbit the fit
\* captured and the orbit target is the fitted centre.
ResetRestoresDefault ==
    lastOp = "resetView" =>
        /\ spherical = defaultSpherical
        /\ orbitTarget = defaultTarget

\* ---------------------------------------------------------------------
\* Properties of the viewports
\* ---------------------------------------------------------------------
\* the operations that end with updateCamera placing the view cameras
CameraUpdates ==
    {"mount", "setViewMode:single", "setViewMode:quad", "resetView",
     "wheel:ctrl", "frame"}

\* C22: in quad mode, after every camera update, the primary camera is,
\* like the three others, at distance current.radius from the orbit target
\* in the direction (phi, theta + thetaOffset) of the current orbit.
QuadCamerasFollowOrbit ==
    (viewMode = "quad" /\ lastOp \in CameraUpdates) =>
        /\ camera.dist = spherical.radius
        /\ camera.phi = spherical.phi
        /\ WrapAngle(camera.theta) =
              WrapAngle(spherical.theta + thetaOffset(primaryView(viewMode)))

\* the views of the current layout, as a set
currentViews == {views(viewMode)[i] : i \in 1..Len(views(viewMode))}

\* C23: single mode has exactly one viewport, filling the canvas, with
\* azimuth offset 0; quad mode has exactly four viewports with the offsets
\* 0, 90, 180 and 270 degrees, and its primary viewport has offset 0.
LayoutModes ==
    /\ viewMode = "single" =>
          /\ Len(views(viewMode)) = 1
          /\ \A v \in currentViews :
                viewportRect(v) = <<0, 0, 2, 2>> /\ thetaOffset(v) = 0
    /\ viewMode = "quad" =>
          /\ Len(views(viewMode)) = 4
          /\ {WrapAngle(thetaOffset(v)) : v \in currentViews} =
                {0, HalfPI, PI, -HalfPI}
          /\ Cardinality(currentViews) = 4
          /\ thetaOffset(primaryView(viewMode)) = 0

\* C24: when setViewMode(mode) returns, the layout is the requested one with
\* its one or four views, the primary view is one of them, current equals
\* goal and the dirty flag is set.
ViewModeSwitched ==
    \A mode \in {"single", "quad"} :
        lastOp = "setViewMode:" \o mode =>
            /\ viewMode = mode
            /\ Len(views(viewMode)) = (IF mode = "quad" THEN 4 ELSE 1)
            /\ Cardinality(currentViews) = Len(views(viewMode))
            /\ primaryView(viewMode) \in currentViews
            /\ spherical = sphericalGoal
            /\ needsRender

\* a switch to quad that found the goal away from the initial distance
SwitchedAfterWheel ==
    /\ lastOp = "setViewMode:quad"
    /\ nOps >= 2
    /\ sphericalGoal.radius # InitialDistance

\* ---------------------------------------------------------------------
\* Properties of the wheel handler
\* ---------------------------------------------------------------------
\* C25: a wheel event without the modifier moves the goal radius by
\* deltaY * 0.01, clamped to [minDistance, maxDistance], cancels the spin
\* and leaves the goal angles, the current orbit, the orbit target and the
\* drag state as they were.
PlainWheelDollies ==
    [][lastOp' = "wheel" =>
          /\ \E deltaY \in WheelDeltas :
                sphericalGoal'.radius =
                    clamp(sphericalGoal.radius + deltaY, minDistance, maxDistance)
          /\ ~isSpinning'
          /\ velocityTheta' = 0
          /\ velocityPhi' = 0
          /\ sphericalGoal'.theta = sphericalGoal.theta
          /\ sphericalGoal'.phi = sphericalGoal.phi
          /\ spherical' = spherical
          /\ orbitTarget' = orbitTarget
          /\ camera' = camera
          /\ pointerState' = pointerState]_vars

\* a wheel event during a drag moved the goal 0.1 closer and nothing else
WheelDuringDrag ==
    /\ lastOp = "wheel"
    /\ pointerState.isDragging
    /\ sphericalGoal.radius = InitialDistance - 10
    /\ spherical.radius = InitialDistance

\* wheel events, drags and frames per behaviour
MaxWheelOps == 2

\* the viewers a wheel event can find: freshly mounted, fitted to a model
\* of any size, and just released from a drag (spinning or not)
WheelStarts ==
    {[Marked(s, "pointerup", 0) EXCEPT !.nOps = 0] : s \in Released}
    \cup {Mounted}
    \cup {[Marked(s, "loaded", 1) EXCEPT !.nOps = 0, !.fitToken = 1] :
             s \in FittedModels}

InitWheel == \E s \in WheelStarts : Starts(s)

NextWheel ==
    \/ Wheel
    \/ PointerDown
    \/ PointerMove
    \/ Frame

SpecWheel == InitWheel /\ [][NextWheel /\ nOps' <= MaxWheelOps]_vars

WheelOps == {"wheel", "wheel:ctrl", "wheel:ctrl:norect"}

\* C26 as stated: every wheel event with the zoom modifier ends with current
\* equal to goal and the goal radius inside [minDistance, maxDistance], and
\* every wheel event leaves no spin and no velocity.
ModifierWheelSnaps ==
    /\ lastOp \in {"wheel:ctrl", "wheel:ctrl:norect"} =>
          /\ spherical = sphericalGoal
          /\ sphericalGoal.radius >= minDistance
          /\ sphericalGoal.radius <= maxDistance
    /\ lastOp \in WheelOps =>
          ~isSpinning /\ velocityTheta = 0 /\ velocityPhi = 0

\* C26 as the code has it: a wheel event with the zoom modifier on a
\* viewport whose rectangle is not empty ends with current equal to goal
\* and the goal radius inside [minDistance, maxDistance]; every wheel event,
\* also one that returns early for an empty rectangle, leaves no spin and
\* no velocity.
ModifierWheelSnapsInRect ==
    /\ lastOp = "wheel:ctrl" =>
          /\ spherical = sphericalGoal
          /\ sphericalGoal.radius >= minDistance
          /\ sphericalGoal.radius <= maxDistance
    /\ lastOp \in WheelOps =>
          ~isSpinning /\ velocityTheta = 0 /\ velocityPhi = 0

\* a modifier zoom toward the cursor that found current behind the goal
ZoomedAfterDolly ==
    /\ lastOp = "wheel:ctrl"
    /\ nOps = 2
    /\ orbitTarget = 2
    /\ spherical = sphericalGoal

\* ---------------------------------------------------------------------
\* Properties of the frame callback
\* ---------------------------------------------------------------------
\* mode switches, energy changes, wheel events and inertia frames per
\* behaviour
MaxFrameOps == 2

\* a mounted viewer, idle or spinning after a released drag, in either
\* layout and with the particles on or off
FrameStarts ==
    {[Marked(updateEnergy(setViewMode(s, mode, CHOOSE d \in Dirs : TRUE), energy),
             "updateEnergy", 0) EXCEPT !.nOps = 0] :
        s \in {Mounted} \cup {r \in Released : r.isSpinning},
        mode \in {"single", "quad"}, energy \in EnergyLevels}

InitFrames == \E s \in FrameStarts : Starts(s)

\* frames between mode switches, energy changes and dolly wheel events
NextFrames ==
    \/ Frame
    \/ SetViewMode
    \/ UpdateEnergy
    \/ WheelZoom

SpecFrames == InitFrames /\ [][NextFrames /\ nOps' <= MaxFrameOps]_vars

\* C27: a frame draws exactly if the dirty flag is set when the frame tests
\* it (the particle step sets it while the energy is above 0.01),
\* updateCamera reported a change or a spin is active; a frame that draws
\* clears once, then draws each view of the current list once, in list
\* order, with that view's rectangle and camera, and clears the dirty flag;
\* a frame that does not draw issues no render command.
FrameDrawsEachView ==
    [][lastOp' = "frame" =>
          LET spinning == isSpinning /\ ~pointerState.isDragging
              dirty == needsRender \/ currentEnergy > 1
              list == views(viewMode)
          IN IF dirty \/ cameraChanged' \/ spinning
             THEN /\ Len(drawCalls') = 1 + Len(list)
                  /\ drawCalls'[1] = "clear"
                  /\ \A i \in 1..Len(list) :
                        drawCalls'[i + 1] =
                            [view |-> list[i], rect |-> viewportRect(list[i])]
                  /\ ~needsRender'
             ELSE drawCalls' = << >>]_vars

\* a frame of the quad layout drew its four views
QuadFrameDrawn ==
    /\ lastOp = "frame"
    /\ viewMode = "quad"
    /\ Len(drawCalls) = 5
    /\ ~needsRender

\* ---------------------------------------------------------------------
\* Properties of requestRender
\* ---------------------------------------------------------------------
\* C28: in every state, requestRender registers the frame callback only if
\* the loop is not active, a second call right after the first registers
\* nothing and changes nothing, and both leave needsRender and
\* renderLoopActive true; no operation registers the callback twice.
RequestRenderIdempotent ==
    LET once == requestRender(This)
        twice == requestRender(once)
    IN /\ once.needsRender
       /\ once.renderLoopActive
       /\ once.loopRegistrations = (IF renderLoopActive THEN 0 ELSE 1)
       /\ twice = once
       /\ loopRegistrations <= 1

\* a load completed on an unmounted viewer: its fit called requestRender
\* several times and the stopped loop was registered once
FitRestartedLoopOnce ==
    /\ lastOp = "loaded"
    /\ fitToken = lastTok
    /\ ~viewport
    /\ renderLoopActive
    /\ needsRender
    /\ loopRegistrations = 1

\* ---------------------------------------------------------------------
\* Orbit math on Cartesian vectors (src/unnamed/part_003, orbitMath).
\* Lengths are in 0.01 units, angles in 1e-4 rad as everywhere above.
\* The Math functions are computed in whole degrees from tables of
\* sin and tan scaled by TrigScale, so each conversion loses up to one
\* degree and one length unit, as the floating-point ones lose an ulp.
\* ---------------------------------------------------------------------
TrigScale == 10000
\* the value Math.acos returns outside [-1, 1]
NaN == -999999

\* Math.sin of 0..90 degrees, times TrigScale
sinTable ==
    <<0, 175, 349, 523, 698, 872, 1045, 1219, 1392, 1564,
      1736, 1908, 2079, 2250, 2419, 2588, 2756, 2924, 3090, 3256,
      3420, 3584, 3746, 3907, 4067, 4226, 4384, 4540, 4695, 4848,
      5000, 5150, 5299, 5446, 5592, 5736, 5878, 6018, 6157, 6293,
      6428, 6561, 6691, 6820, 6947, 7071, 7193, 7314, 7431, 7547,
      7660, 7771, 7880, 7986, 8090, 8192, 8290, 8387, 8480, 8572,
      8660, 8746, 8829, 8910, 8988, 9063, 9135, 9205, 9272, 9336,
      9397, 9455, 9511, 9563, 9613, 9659, 9703, 9744, 9781, 9816,
      9848, 9877, 9903, 9925, 9945, 9962, 9976, 9986, 9994, 9998,
      10000>>

\* Math.tan of 0..45 degrees, times TrigScale
tanTable ==
    <<0, 175, 349, 524, 699, 875, 1051, 1228, 1405, 1584,
      1763, 1944, 2126, 2309, 2493, 2679, 2867, 3057, 3249, 3443,
      3640, 3839, 4040, 4245, 4452, 4663, 4877, 5095, 5317, 5543,
      5774, 6009, 6249, 6494, 6745, 7002, 7265, 7536, 7813, 8098,
      8391, 8693, 9004, 9325, 9657, 10000>>

Radians(deg) == Scale(deg, PI, 180)
Degrees(rad) ==
    IF rad >= 0 THEN (rad * 180 + HalfPI) \div PI
    ELSE -(((-rad) * 180 + HalfPI) \div PI)

sinDeg(d) ==
    LET m == d % 360 IN
    IF m <= 90 THEN sinTable[m + 1]
    ELSE IF m <= 180 THEN sinTable[180 - m + 1]
    ELSE IF m <= 270 THEN -sinTable[m - 180 + 1]
    ELSE -sinTable[360 - m + 1]

cosDeg(d) == sinDeg(d + 90)

\* Math.acos, in degrees; NaN outside [-1, 1]
acos(c) ==
    IF c < -TrigScale \/ c > TrigScale THEN NaN
    ELSE CHOOSE a \in 0..180 : cosDeg(a) <= c /\ (a = 0 \/ cosDeg(a - 1) > c)

\* the angle in 0..45 degrees whose tangent is t / TrigScale
atanDeg(t) ==
    CHOOSE a \in 0..45 : tanTable[a + 1] <= t /\ (a = 45 \/ tanTable[a + 2] > t)

\* Math.atan2, in degrees within (-180, 180]; atan2(0, 0) is 0
atan2(y, x) ==
    IF x = 0 /\ y = 0 THEN 0
    ELSE LET ax == Abs(x)
             ay == Abs(y)
             a == IF ay <= ax THEN atanDeg((ay * TrigScale) \div ax)
                  ELSE 90 - atanDeg((ax * TrigScale) \div ay)
         IN IF x >= 0 THEN (IF y >= 0 THEN a ELSE -a)
            ELSE (IF y >= 0 THEN 180 - a ELSE a - 180)

isqrt(n, hi) == CHOOSE r \in 0..hi : r * r <= n /\ (r + 1) * (r + 1) > n

\* the error of the last place that Math.sqrt and the sum under it leave
RoundingErrors == {-1, 0, 1}

\* vector.length(): zero exactly for the zero vector, otherwise the root
\* within one unit of the last place
length(vector, err) ==
    LET x == vector[1]
        y == vector[2]
        z == vector[3]
        root == isqrt(x * x + y * y + z * z, Abs(x) + Abs(y) + Abs(z))
    IN IF root = 0 THEN 0 ELSE Max(1, root + err)

\* setOrbitFromVector without the clamp of z / radius
setOrbitFromVectorUnclamped(vector, err) ==
    LET radius == length(vector, err) IN
    IF radius = 0 THEN [out |-> Sph(0, HalfPI, 0), calls |-> {}]
    ELSE LET theta == atan2(vector[2], vector[1])
             cosPhi == Scale(vector[3], TrigScale, radius)
             phi == acos(cosPhi)
         IN [out |-> Sph(Radians(theta), IF phi = NaN THEN NaN ELSE Radians(phi), radius),
             calls |-> {"atan2", "acos"}]

\* setOrbitFromVector with the arguments of atan2 exchanged
setOrbitFromVectorSwapped(vector, err) ==
    LET radius == length(vector, err) IN
    IF radius = 0 THEN [out |-> Sph(0, HalfPI, 0), calls |-> {}]
    ELSE LET theta == atan2(vector[1], vector[2])
             cosPhi == clamp(Scale(vector[3], TrigScale, radius), -TrigScale, TrigScale)
             phi == acos(cosPhi)
         IN [out |-> Sph(Radians(theta), IF phi = NaN THEN NaN ELSE Radians(phi), radius),
             calls |-> {"atan2", "acos"}]

\* setOrbitFromVector(out, vector) on a Cartesian vector: the spherical
\* written to out and the Math functions evaluated on the way
setOrbitFromVector3(vector, err) ==
    LET radius == length(vector, err) IN
    IF radius = 0 THEN [out |-> Sph(0, HalfPI, 0), calls |-> {}]
    ELSE LET theta == atan2(vector[2], vector[1])
             cosPhi == clamp(Scale(vector[3], TrigScale, radius), -TrigScale, TrigScale)
             phi == acos(cosPhi)
         IN [out |-> Sph(Radians(theta), IF phi = NaN THEN NaN ELSE Radians(phi), radius),
             calls |-> {"atan2", "acos"}]

\* setVectorFromOrbit(spherical, target): the vector written to target
setVectorFromOrbit(sph) ==
    LET theta == Degrees(sph.theta)
        phi == Degrees(sph.phi)
        sinPhiRadius == Scale(sinDeg(phi), sph.radius, TrigScale)
    IN <<Scale(sinPhiRadius, cosDeg(theta), TrigScale),
         Scale(sinPhiRadius, sinDeg(theta), TrigScale),
         Scale(cosDeg(phi), sph.radius, TrigScale)>>

\* offset vectors: on the axes, in the planes, in every octant, shorter
\* than minDistance and as long as a fitted camera offset
Coordinates == {-300, -40, 0, 3, 40, 300}
Vectors == Coordinates \X Coordinates \X Coordinates

InitOrbitMath ==
    \E v \in Vectors : Starts([Blank EXCEPT !.cameraOffset = v, !.lastOp = "vector"])

SetOrbitFromVector ==
    /\ lastOp = "vector"
    /\ \E err \in RoundingErrors :
          LET r == setOrbitFromVector3(cameraOffset, err) IN
          Becomes([Marked(This, "setOrbitFromVector", 0)
                     EXCEPT !.spherical = r.out, !.mathCalls = r.calls])

SetVectorFromOrbit ==
    /\ lastOp = "setOrbitFromVector"
    /\ spherical.phi # NaN
    /\ Becomes([Marked(This, "setVectorFromOrbit", 0)
                  EXCEPT !.cameraOffset = setVectorFromOrbit(spherical)])

NextOrbitMath == SetOrbitFromVector \/ SetVectorFromOrbit

SpecOrbitMath == InitOrbitMath /\ [][NextOrbitMath]_vars

\* C29: setOrbitFromVector on the zero vector yields radius 0, theta 0
\* and phi PI/2 and evaluates neither atan2 nor acos; on every other
\* vector the argument of acos lies in [-1, 1], so that neither angle of
\* the result is NaN.
DegenerateSafe ==
    lastOp = "setOrbitFromVector" =>
        /\ cameraOffset = <<0, 0, 0>> =>
              (spherical = Sph(0, HalfPI, 0) /\ mathCalls = {})
        /\ cameraOffset # <<0, 0, 0>> =>
              (spherical.radius > 0 /\ mathCalls = {"atan2", "acos"})
        /\ spherical.theta # NaN
        /\ spherical.phi # NaN
        /\ spherical.phi >= 0 /\ spherical.phi <= PI

\* the vector (0, 0, 3 units) whose length was rounded down, so that
\* z / radius exceeds 1 before the clamp
ClampedAtPole ==
    /\ lastOp = "setOrbitFromVector"
    /\ cameraOffset = <<0, 0, 300>>
    /\ spherical.radius = 299
    /\ spherical.phi = 0

\* the margin from the poles, where acos turns the error of the last
\* place of z / radius into a larger error of the angle: 15 degrees at
\* the precision of the tables
Epsilon == 2618

\* the distance two vectors may differ by after a round trip from a
\* vector of length r: the error of a degree in each angle and of the
\* last place of the radius, and two length units
Tolerance(r) == Scale(r, 5, 100) + 2

Close(u, v, r) == \A i \in 1..3 : Abs(u[i] - v[i]) <= Tolerance(r)

\* C30: for an offset vector v of non-zero length with polar angle
\* strictly inside (Epsilon, PI - Epsilon), the vector that
\* setVectorFromOrbit makes of setOrbitFromVector(v) equals v within the
\* tolerance.
RoundTrip ==
    [][(/\ lastOp' = "setVectorFromOrbit"
        /\ spherical.radius > 0
        /\ spherical.phi > Epsilon
        /\ spherical.phi < PI - Epsilon)
          => Close(cameraOffset', cameraOffset, spherical.radius)]_vars

\* a round trip of a vector in a negative octant that changed no
\* coordinate by more than the tolerance and kept every sign
RoundTripOffAxis ==
    /\ lastOp = "setVectorFromOrbit"
    /\ spherical.radius > 400
    /\ spherical.phi > HalfPI
    /\ spherical.theta < -HalfPI
    /\ cameraOffset[1] < -250 /\ cameraOffset[2] < -250 /\ cameraOffset[3] < -250

\* ---------------------------------------------------------------------
\* Single model
\* ---------------------------------------------------------------------
\* C31: at the end of every operation the scene holds at most one model
\* renderable and it is the object in the model slot; the slot is null
\* exactly when the scene holds no model renderable.
SingleModel ==
    /\ Cardinality(scene) <= 1
    /\ scene = (IF model = 0 THEN {} ELSE {model})

\* ---------------------------------------------------------------------
\* Unmounted viewer
\* ---------------------------------------------------------------------
Completions == {"loaded", "loadFailed"}

\* C32: after unmount has returned, the render loop stays inactive and the
\* scene holds no model renderable when a load that was in flight at the
\* time of unmount delivers its result.
UnmountedStaysIdle ==
    [][(lastOp \in Unmounts /\ lastOp' \in Completions)
          => (~renderLoopActive' /\ scene' = {} /\ model' = 0)]_vars

\* ---------------------------------------------------------------------
\* Wake-up of the render loop
\* ---------------------------------------------------------------------
\* API calls and input events per behaviour; frames are not limited
MaxWakeOps == 2

\* a frame callback the host delivers while the loop is registered
FrameDelivered ==
    /\ renderLoopActive
    /\ Becomes([Marked(renderLoop(This), "frame", 0) EXCEPT !.nOps = nOps])

WakeupOps ==
    \/ LoadFile
    \/ LoadFromUrl
    \/ PlyInitialized
    \/ ObjParsed
    \/ Mount
    \/ Unmount
    \/ SetViewMode
    \/ ResetView
    \/ UpdateEnergy
    \/ Resize
    \/ PointerDown
    \/ PointerMove
    \/ PointerUp
    \/ Wheel

NextWakeup ==
    \/ WakeupOps /\ nOps' <= MaxWakeOps
    \/ FrameDelivered

\* a step after which the last operation is a frame
FrameComes == renderLoopActive /\ lastOp' = "frame"

\* The host keeps delivering frames while the loop is registered: when the
\* loop stays registered and the last operation is not a frame, a frame
\* comes.  (Weak fairness of FrameDelivered implies this condition.)
SpecWakeup == Init /\ [][NextWakeup]_vars /\ WF_lastOp(FrameComes)

\* the last operation was a frame that drew
FrameDrew == lastOp = "frame" /\ drawCalls # << >>

\* C33 as stated: at the end of every handler and frame a dirty mark
\* implies a registered loop, and every dirty mark is eventually followed
\* by a frame that draws.
EveryDirtyMarkDrawn ==
    /\ [](needsRender => renderLoopActive)
    /\ (needsRender ~> FrameDrew)

\* C33: at the end of every handler and frame a dirty mark implies a
\* registered loop, and every dirty mark is eventually followed by a frame
\* that draws or by an unmount, which discards the mark.
DirtyMarkDrawnOrUnmounted ==
    /\ [](needsRender => renderLoopActive)
    /\ (needsRender ~> (FrameDrew \/ lastOp \in Unmounts))

\* a frame drew the mark that a wheel event left on a mounted viewer
WheelMarkDrawn ==
    /\ FrameDrew
    /\ viewport
    /\ nOps = MaxWakeOps
    /\ ~needsRender
    /\ spherical.radius # defaultSpherical.radius

\* ---------------------------------------------------------------------
\* Gesture state
\* ---------------------------------------------------------------------
\* C34: after any sequence of pointer-down, move, up and leave, wheel,
\* resetView and frame events, isDragging and isSpinning are not both
\* true, and a spinning viewer has a velocity above minVelocity in theta
\* or in phi.
GestureStateConsistent ==
    /\ ~(pointerState.isDragging /\ isSpinning)
    /\ isSpinning => (Abs(velocityTheta) > minVelocity \/ Abs(velocityPhi) > minVelocity)

\* the pointer left the canvas during a fast drag and the viewer spins
LeftIntoSpin ==
    /\ lastOp = "pointerleave"
    /\ isSpinning
    /\ ~pointerState.isDragging
    /\ velocityTheta # 0

\* ---------------------------------------------------------------------
\* Hit-testing
\* ---------------------------------------------------------------------
\* the view handleWheel chooses for an event at pointer position p
targetViewAt(p) ==
    LET hit == getViewFromPointer(This, p[1], p[2], FALSE)
    IN IF hit = "none" THEN primaryView(viewMode) ELSE hit

\* C35: in every reachable state the view chosen for a wheel event from
\* the pointer position, with the primary view as the fallback, is a
\* member of the current view list.
HitTestInLayout == \A p \in Points : targetViewAt(p) \in currentViews

\* ---------------------------------------------------------------------
\* Blob URLs
\* ---------------------------------------------------------------------
\* C36: at any time at most one blob URL created by loadFile is unrevoked
\* and it is the one in currentObjectUrl; a load call and unmount revoke
\* every blob URL that was outstanding before them, and loadFile with an
\* unsupported extension revokes its own before it returns.
BlobUrlHygiene ==
    /\ [](/\ Cardinality(liveUrls) <= 1
          /\ liveUrls = (IF currentObjectUrl = 0 THEN {} ELSE {currentObjectUrl}))
    /\ [][/\ lastOp' \in LoadOps \cup Unmounts => liveUrls \cap liveUrls' = {}
          /\ lastOp' \in Unsupported \cup Unmounts \cup {"loadFile:nofile"}
                => liveUrls' = {}]_vars

\* loadFromUrl has revoked the blob URL of a file loaded before it
UrlLoadRevokedBlobUrl ==
    /\ lastOp = "loadFromUrl:obj"
    /\ currentLoadToken = 2
    /\ loads[1].kind = "ply"
    /\ liveUrls = {}
    /\ currentObjectUrl = 0

\* ---------------------------------------------------------------------
\* The pole-wrap loop of updateCamera, one iteration per step
\* ---------------------------------------------------------------------
\* loop iterations per behaviour
MaxWrapIterations == 5

\* The magnitude from which a double absorbs the addend 2 * maxPolarAngle:
\* 2 * bound - phi is then -phi (2^57 rad for IEEE-754 doubles; the model
\* number stands for it).
Absorbing == 500000000

\* 2 * bound - phi as the floating-point unit computes it
Reflected(bound, phi) ==
    IF Abs(phi) >= Absorbing THEN -phi ELSE 2 * bound - phi

\* a loop body that moves phi to the bound instead of reflecting it
wrapIterationClamps(g) ==
    LET g1 == IF g.phi < minPolarAngle
              THEN [g EXCEPT !.phi = minPolarAngle,
                             !.theta = g.theta + PI]
              ELSE g
    IN IF g1.phi > maxPolarAngle
       THEN [g1 EXCEPT !.phi = maxPolarAngle,
                       !.theta = g1.theta + PI]
       ELSE g1

\* the body of the while loop
wrapIteration(g) ==
    LET g1 == IF g.phi < minPolarAngle
              THEN [g EXCEPT !.phi = Reflected(minPolarAngle, g.phi),
                             !.theta = g.theta + PI]
              ELSE g
    IN IF g1.phi > maxPolarAngle
       THEN [g1 EXCEPT !.phi = Reflected(maxPolarAngle, g1.phi),
                       !.theta = g1.theta + PI]
       ELSE g1

\* the condition of the while loop
OutsidePolarRange(g) == g.phi < minPolarAngle \/ g.phi > maxPolarAngle

\* polar angles of the goal on entry: inside the range, at and next to
\* its bounds, up to six turns outside it, and of absorbing magnitude
WrapPhis ==
    {k * 7001 : k \in -25..25}
        \cup {minPolarAngle - 1, minPolarAngle, maxPolarAngle, maxPolarAngle + 1, PI}
        \cup {-2 * Absorbing, 2 * Absorbing}
WrapThetas == {-6000, 0, PI}

\* updateCamera has clamped the goal radius and reaches the loop; the
\* current orbit holds the goal as it was on entry
InitWrap ==
    \E t \in WrapThetas, p \in WrapPhis :
        Starts([Blank EXCEPT !.sphericalGoal = Sph(t, p, InitialDistance),
                             !.spherical = Sph(t, p, InitialDistance),
                             !.lastOp = "updateCamera"])

InWrapLoop == lastOp \in {"updateCamera", "wrap"}

WrapStep ==
    /\ InWrapLoop
    /\ OutsidePolarRange(sphericalGoal)
    /\ nOps < MaxWrapIterations
    /\ Becomes([Marked(This, "wrap", 0)
                  EXCEPT !.sphericalGoal = wrapIteration(sphericalGoal)])

WrapExit ==
    /\ InWrapLoop
    /\ ~OutsidePolarRange(sphericalGoal)
    /\ Becomes([Marked(This, "wrap:done", 0) EXCEPT !.nOps = nOps])

NextWrap == WrapStep \/ WrapExit

\* the loop runs on: a statement follows the one before it
SpecWrap == InitWrap /\ [][NextWrap]_vars /\ WF_vars(NextWrap)

\* what the loop leaves: phi in range, as WrapPhi computes it
WrapResult ==
    lastOp = "wrap:done" =>
        /\ sphericalGoal.phi >= minPolarAngle
        /\ sphericalGoal.phi <= maxPolarAngle

\* one iteration reflects phi once at a bound and adds PI to theta, or
\* reflects it at both bounds and adds 2 PI
WrapReflects ==
    \/ /\ sphericalGoal'.theta = sphericalGoal.theta + PI
       /\ sphericalGoal'.phi \in {2 * minPolarAngle - sphericalGoal.phi,
                                  2 * maxPolarAngle - sphericalGoal.phi}
    \/ /\ sphericalGoal'.theta = sphericalGoal.theta + 2 * PI
       /\ sphericalGoal'.phi =
             sphericalGoal.phi + 2 * (maxPolarAngle - minPolarAngle)

MaxResetViewOps == 2

\* resets of fresh, fitted and spinning viewers, idle or in a drag
NextResetView ==
    \/ ResetView
    \/ PointerDown
    \/ PointerMove
    \/ Frame

SpecResetView == InitWheel /\ [][NextResetView /\ nOps' <= MaxResetViewOps]_vars

\* C38: resetView, immediate or not, returns with no drag, no axis lock,
\* no spin, both velocities zero, the orbit target on the default target,
\* and current equal to goal equal to the default orbit with its radius
\* clamped to [minDistance, maxDistance].
ResetViewPostcondition ==
    lastOp = "resetView" =>
        /\ ~pointerState.isDragging
        /\ pointerState.axisLock = "none"
        /\ ~isSpinning
        /\ velocityTheta = 0
        /\ velocityPhi = 0
        /\ orbitTarget = defaultTarget
        /\ spherical = sphericalGoal
        /\ sphericalGoal = [defaultSpherical EXCEPT
                               !.radius = clamp(@, minDistance, maxDistance)]

\* a reset during a drag on a model whose default distance exceeds
\* maxDistance
ResetDuringDragClamped ==
    /\ lastOp = "resetView"
    /\ pointerCapture
    /\ nOps = MaxResetViewOps
    /\ defaultSpherical.radius > maxDistance
    /\ spherical.radius = maxDistance

(***************************************************************************)
(* usePonyCare: the energy scalar behind the visual-state layer.           *)
(* energy.value is kept in thousandths (EnergyScale is 1.0), times in      *)
(* whole seconds.  pony.persisted tells which loadState the build has:     *)
(* the one that restores the stored state, or the one that forces 0.       *)
(* pony.stored is the energy of the localStorage item, -1 when there is    *)
(* none; the age of the item is an input of the load.                      *)
(***************************************************************************)
EnergyScale == 1000
GROWTH_TIME_SEC == 60
DECAY_TIME_SEC == 120
MaxPonyOps == 4

\* elapsed times between two ticks: none go backwards
Seconds == {0, 1, 30, 200}
\* now - state.lastSeen at a load: Date.now() is the wall clock, which can be
\* set back between the save and the load
OfflineSeconds == {-60, 0, 30, 200}
\* what an earlier session left in localStorage: nothing, or what saveState wrote
StoredEnergies == {-1, 0, 400, EnergyScale}
LoadOutcomes == {"read", "throws"}

growth(dt) == Scale(dt * EnergyScale, 1, GROWTH_TIME_SEC)
decay(dt) == Scale(dt * EnergyScale, 1, DECAY_TIME_SEC)

loadStatePersisted(p, elapsedSec, outcome) ==
    IF outcome = "throws" THEN [p EXCEPT !.energy = EnergyScale \div 2]
    ELSE IF p.stored # -1
         THEN [p EXCEPT !.energy = Max(0, p.stored - decay(elapsedSec))]
         ELSE [p EXCEPT !.energy = EnergyScale \div 2]

loadState(p, elapsedSec, outcome) ==
    IF p.persisted THEN loadStatePersisted(p, elapsedSec, outcome)
    ELSE [p EXCEPT !.energy = 0]

saveState(p) == [p EXCEPT !.stored = p.energy]

updateLoop(p, dt) ==
    IF p.isVisible
    THEN IF p.energy < EnergyScale
         THEN [p EXCEPT !.energy = Min(EnergyScale, p.energy + growth(dt))]
         ELSE p
    ELSE IF p.energy > 0
         THEN [p EXCEPT !.energy = Max(0, p.energy - decay(dt))]
         ELSE p

\* visibilitychange fires when document.hidden flips: hidden is the old isVisible
handleVisibilityChange(p, elapsedSec, outcome) ==
    IF p.isVisible
    THEN saveState([p EXCEPT !.isVisible = FALSE])
    ELSE [loadState(p, elapsedSec, outcome) EXCEPT !.isVisible = TRUE]

onMounted(p, hidden, elapsedSec, outcome) ==
    [loadState(p, elapsedSec, outcome) EXCEPT !.isVisible = ~hidden,
                                                !.mounted = TRUE]

InitPonyCare ==
    \E e \in StoredEnergies, b \in BOOLEAN :
        Starts([Blank EXCEPT !.pony.stored = e, !.pony.persisted = b])

OnMounted ==
    /\ ~pony.mounted
    /\ \E hidden \in BOOLEAN, t \in OfflineSeconds, o \in LoadOutcomes :
          Becomes([Marked(This, "onMounted", 0)
                     EXCEPT !.pony = onMounted(pony, hidden, t, o)])

UpdateLoop ==
    /\ pony.mounted
    /\ \E dt \in Seconds :
          Becomes([Marked(This, "updateLoop", 0)
                     EXCEPT !.pony = updateLoop(pony, dt)])

VisibilityChange ==
    /\ pony.mounted
    /\ \E t \in OfflineSeconds, o \in LoadOutcomes :
          Becomes([Marked(This, "visibilitychange", 0)
                     EXCEPT !.pony = handleVisibilityChange(pony, t, o)])

SaveInterval ==
    /\ pony.mounted
    /\ Becomes([Marked(This, "saveState", 0) EXCEPT !.pony = saveState(pony)])

NextPonyCare == OnMounted \/ UpdateLoop \/ VisibilityChange \/ SaveInterval

SpecPonyCare == InitPonyCare /\ [][NextPonyCare /\ nOps' <= MaxPonyOps]_vars

\* C39: energy stays within [0, 1] whatever ticks (elapsed time not negative),
\* visibility changes and state loads happen; a tick raises it only while the
\* page is visible and lowers it only while the page is hidden
EnergyInUnitRange ==
    /\ [](pony.energy >= 0 /\ pony.energy <= EnergyScale)
    /\ [][lastOp' = "updateLoop" =>
            /\ pony'.energy > pony.energy => pony.isVisible
            /\ pony'.energy < pony.energy => ~pony.isVisible]_vars

====
